---- MODULE Spec2Model ----
(***************************************************************************)
(* Verification model of rusty-arb: the execution governor                 *)
(* (src/execution.rs), the composite two-leg executor                      *)
(* (src/executors/arbitrage.rs), the arbitrage decision strategy           *)
(* (src/strategies/hype_usdc_cross_arbitrage.rs) and the engine that wires *)
(* collectors, strategies and executors through two broadcast buses        *)
(* (src/engine.rs), also as src/main.rs registers them.                    *)
(***************************************************************************)
EXTENDS Integers, Sequences, FiniteSets, TLC

\* ------------------------------------------------------------------ bounds
\* Largest capacity handed to ExecutionManager::new (capacities 1..MaxCapacity).
MaxCapacity == 2
\* Tasks that use a governor directly, and the length of the governor history.
NumGovTasks == 2
MaxGovOps == 5
\* Concurrent calls of ArbitrageExecutor::execute on one executor.
NumCalls == 3
\* Largest configured cooldown_secs (0..MaxCooldownSecs).
MaxCooldownSecs == 1
\* Events of one venue a strategy's history counts before it stops counting.
MaxSeen == 2
\* Largest capacity asked of a broadcast channel (capacities 1..MaxBusCapacity).
MaxBusCapacity == 1
\* Events sent on the event bus, actions sent on the action bus, and actions one
\* process_event call returns, at most.
MaxSent == 2
MaxActions == 2
MaxReturned == 2
MaxSzDecimals == 2

GovTasks == 1..NumGovTasks
Calls == 1..NumCalls

VARIABLES
    max_concurrent,   \* the capacity ExecutionManager::new was given
    semaphore,        \* permits available in ExecutionManager.semaphore
    held,             \* governor tasks: number of ExecutionPermits a task owns
    govLog,           \* governor tasks: history of try_start / drop operations
    cooldown_secs,    \* ArbitrageExecutor.cooldown_secs
    pc,               \* execute call -> position in execute
    permit,           \* execute call -> TRUE while its _permit binding is alive
    dexResult,        \* execute call -> what dex_executor.execute returned
    hlResult,         \* execute call -> what hl_executor.execute returned
    result,           \* execute call -> what execute returned to its caller
    acquired,         \* execute call -> "got" / "none": what try_start gave it
    legLog,           \* execute call -> legs invoked so far, in order
    elapsed,          \* execute call -> seconds since its cooldown sleep began
    slept,            \* execute call -> seconds it had slept when it returned
    inWindow,         \* execute call -> the positions of the other calls that
                      \* were in their window when it called try_start
    config,           \* strategy: the configuration it was built from
    hyperliquid_bbo,  \* strategy: Option<HyperliquidBbo>, the latest CEX quote
    hyperswap_state,  \* strategy: Option<UniV3PoolState>, the latest DEX state
    seenVenues,       \* strategy: venues that have delivered an event so far
    lastEvent,        \* strategy: the event of the latest process_event call
    returned,         \* strategy: the Vec<Action> that call returned
    latest,           \* strategy: per venue, the payload received most recently
                      \* and how many were received (counted up to MaxSeen)
    event_channel_capacity,   \* Engine.event_channel_capacity
    action_channel_capacity,  \* Engine.action_channel_capacity
    runPc,            \* engine: position of Engine::run
    task,             \* engine: task -> its state
    event_bus,        \* engine: every event sent on the event channel, in order
    action_bus,       \* engine: every action sent on the action channel, in order
    cursor,           \* engine: subscriber task -> index of its next unread item
    colSent,          \* engine: collector -> number of events its stream yielded
    stratEvent,       \* engine: strategy -> the event it is processing
    processed,        \* engine: strategy -> the events it has processed, in order
    returnedLog,      \* engine: strategy -> the actions process_event returned
    syncCalls,        \* engine: strategy -> number of sync_state calls
    received,         \* engine: executor -> the actions its loop received
    inFlight,         \* engine: executor -> actions whose handler task is running
    sawClosed,        \* engine: subscriber tasks whose recv has returned Closed
    govSem,           \* main: executor -> free permits of its own ExecutionManager
    hpc,              \* main: executor -> action -> position of the handler task
                      \* that runs execute for it
    pair,             \* two strategies built from `config`: each with its two
                      \* slots, the Vec<Action> of its latest process_event and
                      \* the events it has processed per venue (up to MaxSeen)
    joint             \* the event the two strategies of `pair` processed in the
                      \* latest step, if they both did, and how they compared
                      \* before it

govVars == <<held, govLog>>
execVars == <<cooldown_secs, pc, permit, dexResult, hlResult, result, acquired,
              legLog, elapsed, slept, inWindow>>
stratVars == <<config, hyperliquid_bbo, hyperswap_state, seenVenues, lastEvent, returned, latest,
               pair, joint>>
engVars == <<event_channel_capacity, action_channel_capacity, runPc, task, event_bus,
             action_bus, cursor, colSent, stratEvent, processed, returnedLog, syncCalls,
             received, inFlight, sawClosed, govSem, hpc>>
mainVars == <<govSem, hpc>>
vars == <<max_concurrent, semaphore, govVars, execVars, stratVars, engVars>>

\* ------------------------------------------------- Result<()> of a leg / execute
\* anyhow::Error is type-erased: both legs return the same error type.
LegErrors == {"timeout", "rejected"}
Pending == [tag |-> "Pending", err |-> ""]
Ok == [tag |-> "Ok", err |-> ""]
Err(e) == [tag |-> "Err", err |-> e]
LegResults == {Ok} \cup {Err(e) : e \in LegErrors}
IsErr(r) == r.tag = "Err"

\* ------------------------------------------------------ execution governor
\* ExecutionManager::new: a semaphore with max_concurrent permits.
ExecutionManagerNew(n) == n

\* try_start that hands out a permit also when none is left.
try_start_always(sem) ==
    [got |-> TRUE, sem |-> IF sem > 0 THEN sem - 1 ELSE 0]

\* try_start that keeps the last permit back.
try_start_strict(sem) ==
    IF sem > 1 THEN [got |-> TRUE, sem |-> sem - 1]
               ELSE [got |-> FALSE, sem |-> sem]

\* ExecutionManager::try_start: try_acquire_owned().ok(), never blocks.
try_start(sem) ==
    IF sem > 0 THEN [got |-> TRUE, sem |-> sem - 1]
               ELSE [got |-> FALSE, sem |-> sem]

\* A permit that is forgotten instead of given back.
ExecutionPermitLeak(sem) == sem

\* Drop of ExecutionPermit: the OwnedSemaphorePermit gives its permit back.
ExecutionPermitDrop(sem) == sem + 1

RECURSIVE SumHeld(_, _)
SumHeld(f, S) ==
    IF S = {} THEN 0
    ELSE LET t == CHOOSE x \in S : TRUE IN f[t] + SumHeld(f, S \ {t})

\* Permits owned by the governor tasks at this moment.
HeldPermits == SumHeld(held, GovTasks)

InitGov ==
    /\ held = [t \in GovTasks |-> 0]
    /\ govLog = <<>>

\* A task calls try_start and keeps the permit it gets.
GovTryStart(t) ==
    /\ Len(govLog) < MaxGovOps
    /\ LET r == try_start(semaphore) IN
        /\ semaphore' = r.sem
        /\ held' = [held EXCEPT ![t] = @ + (IF r.got THEN 1 ELSE 0)]
        /\ govLog' = Append(govLog, [op |-> "try", got |-> r.got, task |-> t])
    /\ UNCHANGED <<engVars, stratVars, max_concurrent, execVars>>

\* A task drops one of the permits it owns.
GovDrop(t) ==
    /\ Len(govLog) < MaxGovOps
    /\ held[t] > 0
    /\ semaphore' = ExecutionPermitDrop(semaphore)
    /\ held' = [held EXCEPT ![t] = @ - 1]
    /\ govLog' = Append(govLog, [op |-> "drop", got |-> FALSE, task |-> t])
    /\ UNCHANGED <<engVars, stratVars, max_concurrent, execVars>>

NextGov == \E t \in GovTasks : GovTryStart(t) \/ GovDrop(t)

\* ------------------------------------------------ composite two-leg executor
\* execute that goes on to the legs without a permit.
OnTryStartIgnored(got) == "dex"

\* execute, lines 50-56: with a permit go on to the DEX leg, without one return.
OnTryStart(got) == IF got THEN "dex" ELSE "done"

\* execute, line 54: what the call returns when no permit was available.
SkipResult == Ok

\* execute that runs the HL leg whatever the DEX leg returned.
OnDexResultIgnored(r) == "hl"

\* execute, lines 61-64: a DEX-leg error is returned as it is, else the HL leg runs.
OnDexResult(r) == IF IsErr(r) THEN "done" ELSE "hl"
DexFailureResult(r) == Err(r.err)

\* execute, lines 67-70: an HL-leg error is returned as it is, else the cooldown runs.
OnHlResult(r) == IF IsErr(r) THEN "done" ELSE "sleep"
HlFailureResult(r) == Err(r.err)

\* A sleep that returns at once.
SleepCutShort(e, secs) == TRUE

\* execute, line 76: tokio::time::sleep returns once cooldown_secs have passed.
SleepElapsed(e, secs) == e >= secs

\* A call is in its window from try_start until its cooldown time has passed.
InWindow(c) ==
    \/ pc[c] \in {"dex", "hl"}
    \/ elapsed[c] >= 0 /\ elapsed[c] < cooldown_secs

InitExec ==
    /\ pc = [c \in Calls |-> "idle"]
    /\ permit = [c \in Calls |-> FALSE]
    /\ dexResult = [c \in Calls |-> Pending]
    /\ hlResult = [c \in Calls |-> Pending]
    /\ result = [c \in Calls |-> Pending]
    /\ acquired = [c \in Calls |-> "pending"]
    /\ legLog = [c \in Calls |-> <<>>]
    /\ elapsed = [c \in Calls |-> -1]
    /\ slept = [c \in Calls |-> -1]
    /\ inWindow = [c \in Calls |-> {}]

\* The call returns res: its _permit goes out of scope and is dropped.
Return(c, res) ==
    /\ result' = [result EXCEPT ![c] = res]
    /\ slept' = [slept EXCEPT ![c] = IF elapsed[c] < 0 THEN 0 ELSE elapsed[c]]
    /\ permit' = [permit EXCEPT ![c] = FALSE]
    /\ semaphore' = IF permit[c] THEN ExecutionPermitDrop(semaphore) ELSE semaphore

\* execute is called: try_start, then either the skip or the DEX leg is invoked.
\* Calls are numbered in the order in which they are made.
ExecuteStart(c) ==
    /\ pc[c] = "idle"
    /\ \A d \in Calls : d < c => pc[d] # "idle"
    /\ inWindow' = [inWindow EXCEPT ![c] =
                       {pc[d] : d \in {e \in Calls \ {c} : InWindow(e)}}]
    /\ LET r == try_start(semaphore)
           next == OnTryStart(r.got) IN
        /\ acquired' = [acquired EXCEPT ![c] = IF r.got THEN "got" ELSE "none"]
        /\ pc' = [pc EXCEPT ![c] = next]
        /\ IF next = "done"
           THEN /\ result' = [result EXCEPT ![c] = SkipResult]
                /\ slept' = [slept EXCEPT ![c] = 0]
                /\ permit' = [permit EXCEPT ![c] = FALSE]
                /\ semaphore' = IF r.got THEN ExecutionPermitDrop(r.sem) ELSE r.sem
                /\ UNCHANGED legLog
           ELSE /\ permit' = [permit EXCEPT ![c] = r.got]
                /\ semaphore' = r.sem
                /\ legLog' = [legLog EXCEPT ![c] = Append(@, "dex")]
                /\ UNCHANGED <<result, slept>>
    /\ UNCHANGED <<engVars, stratVars, max_concurrent, govVars, cooldown_secs, dexResult, hlResult, elapsed>>

\* dex_executor.execute returns r.
DexLegReturns(c, r) ==
    /\ pc[c] = "dex"
    /\ dexResult' = [dexResult EXCEPT ![c] = r]
    /\ LET next == OnDexResult(r) IN
        /\ pc' = [pc EXCEPT ![c] = next]
        /\ IF next = "done"
           THEN /\ Return(c, DexFailureResult(r))
                /\ UNCHANGED legLog
           ELSE /\ legLog' = [legLog EXCEPT ![c] = Append(@, "hl")]
                /\ UNCHANGED <<result, slept, permit, semaphore>>
    /\ UNCHANGED <<engVars, stratVars, max_concurrent, govVars, cooldown_secs, hlResult, acquired,
                   elapsed, inWindow>>

\* hl_executor.execute returns r; on success log_pnl reports and the sleep begins.
HlLegReturns(c, r) ==
    /\ pc[c] = "hl"
    /\ hlResult' = [hlResult EXCEPT ![c] = r]
    /\ LET next == OnHlResult(r) IN
        /\ pc' = [pc EXCEPT ![c] = next]
        /\ IF next = "done"
           THEN /\ Return(c, HlFailureResult(r))
                /\ UNCHANGED elapsed
           ELSE /\ elapsed' = [elapsed EXCEPT ![c] = 0]
                /\ UNCHANGED <<result, slept, permit, semaphore>>
    /\ UNCHANGED <<engVars, stratVars, max_concurrent, govVars, cooldown_secs, dexResult, acquired,
                   legLog, inWindow>>

\* One second passes for every cooldown that has begun and not yet run out.
Tick ==
    /\ \E c \in Calls : elapsed[c] >= 0 /\ elapsed[c] < cooldown_secs
    /\ elapsed' = [c \in Calls |->
                     IF elapsed[c] >= 0 /\ elapsed[c] < cooldown_secs
                     THEN elapsed[c] + 1 ELSE elapsed[c]]
    /\ UNCHANGED <<engVars, stratVars, max_concurrent, semaphore, govVars, cooldown_secs, pc, permit,
                   dexResult, hlResult, result, acquired, legLog, slept, inWindow>>

\* The sleep is over: execute returns Ok(()) and the permit is dropped.
CooldownEnds(c) ==
    /\ pc[c] = "sleep"
    /\ SleepElapsed(elapsed[c], cooldown_secs)
    /\ pc' = [pc EXCEPT ![c] = "done"]
    /\ Return(c, Ok)
    /\ UNCHANGED <<engVars, stratVars, max_concurrent, govVars, cooldown_secs, dexResult, hlResult,
                   acquired, legLog, elapsed, inWindow>>

NextExec ==
    \/ \E c \in Calls : ExecuteStart(c)
    \/ \E c \in Calls, r \in LegResults : DexLegReturns(c, r)
    \/ \E c \in Calls, r \in LegResults : HlLegReturns(c, r)
    \/ Tick
    \/ \E c \in Calls : CooldownEnds(c)

\* ------------------------------------------------------------------ f64
\* An f64 is the exact rational n/d (d > 0), or +inf (1/0), -inf (-1/0), NaN (0/0).
\* Rounding error and the sign of zero are not modelled.
Abs(a) == IF a < 0 THEN -a ELSE a
Sgn(a) == IF a < 0 THEN -1 ELSE IF a > 0 THEN 1 ELSE 0

RECURSIVE Gcd(_, _)
Gcd(a, b) == IF b = 0 THEN a ELSE Gcd(b, a % b)

F(n, d) ==
    IF d = 0 THEN [n |-> Sgn(n), d |-> 0]
    ELSE LET g == Gcd(Abs(n), Abs(d)) IN
         [n |-> (Sgn(d) * n) \div g, d |-> Abs(d) \div g]

FInt(i) == F(i, 1)
NaN == F(0, 0)
Inf == F(1, 0)
IsNaN(x) == x.n = 0 /\ x.d = 0
IsFinite(x) == x.d # 0

FNeg(x) == [n |-> -x.n, d |-> x.d]

FAdd(x, y) ==
    IF x.d = 0 /\ y.d = 0
    THEN (IF x.n = y.n THEN x ELSE NaN)
    ELSE IF x.d = 0 THEN x
    ELSE IF y.d = 0 THEN y
    ELSE LET g == Gcd(x.d, y.d) IN
         F(x.n * (y.d \div g) + y.n * (x.d \div g), (x.d \div g) * y.d)

FSub(x, y) == FAdd(x, FNeg(y))

FMul(x, y) ==
    IF x.d = 0 \/ y.d = 0 THEN F(x.n * y.n, 0)
    ELSE LET g1 == Gcd(Abs(x.n), y.d)
             g2 == Gcd(Abs(y.n), x.d) IN
         F((x.n \div g1) * (y.n \div g2), (x.d \div g2) * (y.d \div g1))

\* 1/y: 1/0 is +inf, 1/inf is 0.
FInv(y) ==
    IF y.n = 0 THEN (IF y.d = 0 THEN NaN ELSE Inf)
    ELSE [n |-> Sgn(y.n) * y.d, d |-> Abs(y.n)]

FDiv(x, y) == FMul(x, FInv(y))

\* x > y; every comparison with NaN is false.
FGt(x, y) ==
    IF IsNaN(x) \/ IsNaN(y) THEN FALSE
    ELSE IF x.d = 0 /\ y.d = 0 THEN x.n > y.n
    ELSE IF x.d = 0 THEN x.n > 0
    ELSE IF y.d = 0 THEN y.n < 0
    ELSE FSub(x, y).n > 0

FLt(x, y) == FGt(y, x)
FGe(x, y) == ~IsNaN(x) /\ ~IsNaN(y) /\ ~FGt(y, x)

RECURSIVE Pow10(_)
Pow10(k) == IF k = 0 THEN 1 ELSE 10 * Pow10(k - 1)

\* 10_f64.powi(k)
FPow10(k) == IF k >= 0 THEN F(Pow10(k), 1) ELSE F(1, Pow10(-k))

\* f64::round: to the nearest integer, halves away from zero.
FRound(x) ==
    IF x.d = 0 THEN x
    ELSE F(Sgn(x.n) * ((2 * Abs(x.n) + x.d) \div (2 * x.d)), 1)

\* Option<T>
None == [some |-> FALSE]
Some(v) == [some |-> TRUE, v |-> v]

\* str::parse::<f64> on a string given as its characters: decimal digits with
\* at most one point, "NaN" and "inf"; anything else is an error (None).
Digits == {"0", "1", "2", "3", "4", "5", "6", "7", "8", "9"}
DigitVal(ch) ==
    CASE ch = "0" -> 0 [] ch = "1" -> 1 [] ch = "2" -> 2 [] ch = "3" -> 3
      [] ch = "4" -> 4 [] ch = "5" -> 5 [] ch = "6" -> 6 [] ch = "7" -> 7
      [] ch = "8" -> 8 [] ch = "9" -> 9

RECURSIVE DigitsValue(_)
DigitsValue(s) ==
    IF s = <<>> THEN 0
    ELSE 10 * DigitsValue(SubSeq(s, 1, Len(s) - 1)) + DigitVal(s[Len(s)])

ParseF64(s) ==
    LET dots == {i \in 1..Len(s) : s[i] = "."}
        digs == {i \in 1..Len(s) : s[i] \in Digits} IN
    IF s = <<"N", "a", "N">> THEN Some(NaN)
    ELSE IF s = <<"i", "n", "f">> THEN Some(Inf)
    ELSE IF dots \cup digs # 1..Len(s) \/ Cardinality(dots) > 1 \/ digs = {}
    THEN None
    ELSE LET p == IF dots = {} THEN Len(s) + 1 ELSE CHOOSE i \in dots : TRUE
             whole == SubSeq(s, 1, p - 1)
             frac == SubSeq(s, p + 1, Len(s)) IN
         Some(F(DigitsValue(whole \o frac), Pow10(Len(frac))))

\* ------------------------------------------------------- strategy: pricing
\* The pool fee is ignored.
FeeFractionZero(fee) == FInt(0)

\* `let fee_fraction = state.fee as f64 / 1_000_000.0;`
FeeFraction(fee) == FDiv(FInt(fee), FInt(1000000))

\* calculate_dex_bid_ask. state.sqrt_price is a U256 kept as hi * 2^128 + lo with
\* lo given in units of 2^96 (lo_q96 = lo / 2^96): the conversion to u128 keeps
\* bytes 16..31, the low 128 bits.
calculate_dex_bid_ask(state) ==
    LET sqrt_price == state.sqrt_price.lo_q96
        base_price == FMul(sqrt_price, sqrt_price)
        decimal_adjustment == FPow10(state.token_a_decimals - state.token_b_decimals)
        mid_price == FMul(base_price, decimal_adjustment)
        fee_fraction == FeeFraction(state.fee)
        half == FDiv(fee_fraction, FInt(2))
        bid == FMul(mid_price, FSub(FInt(1), half))
        ask == FMul(mid_price, FAdd(FInt(1), half)) IN
    Some([bid |-> bid, ask |-> ask])

\* get_hyperliquid_prices
get_hyperliquid_prices(cfg, bbo) ==
    IF Len(bbo.levels) < 2 THEN None
    ELSE IF ~bbo.levels[1].some THEN None
    ELSE LET raw_bid == ParseF64(bbo.levels[1].v.px) IN
    IF ~raw_bid.some THEN None
    ELSE IF ~bbo.levels[2].some THEN None
    ELSE LET raw_ask == ParseF64(bbo.levels[2].v.px) IN
    IF ~raw_ask.some THEN None
    ELSE LET hl_maker_fee == FDiv(cfg.hl_maker_fee_bps, FInt(10000)) IN
         Some([bid |-> FMul(raw_bid.v, FSub(FInt(1), hl_maker_fee)),
               ask |-> FMul(raw_ask.v, FAdd(FInt(1), hl_maker_fee))])

\* calculate_net_profit_bps
\* The gas fee is left out of the net profit.
calculate_gross_profit_bps(cfg, buy_price, sell_price) ==
    FMul(FDiv(FSub(sell_price, buy_price), buy_price), FInt(10000))

calculate_net_profit_bps(cfg, buy_price, sell_price) ==
    LET gross_profit_pct == FDiv(FSub(sell_price, buy_price), buy_price)
        gas_fee_pct == FDiv(cfg.dex_gas_fee_usd, cfg.order_size_usd)
        net_profit_pct == FSub(gross_profit_pct, gas_fee_pct) IN
    FMul(net_profit_pct, FInt(10000))

\* `as u64` / `as u128` of an f64: truncates toward zero, NaN and negatives
\* give 0, +inf saturates (sat). The value is m * 10^e.
RawAmount(x, e) ==
    IF x.d = 0 THEN [m |-> 0, e |-> e, sat |-> x.n > 0]
    ELSE IF x.n < 0 THEN [m |-> 0, e |-> e, sat |-> FALSE]
    ELSE [m |-> x.n \div x.d, e |-> e, sat |-> FALSE]

\* Slippage lifts the limit of a CEX sell.
SellLimitRaised(hl_price, slip) == FMul(hl_price, FAdd(FInt(1), slip))

\* `let hl_sell_price = hl_price * (1.0 - self.config.slippage_bps / 10000.0);`
SellLimit(hl_price, slip) == FMul(hl_price, FSub(FInt(1), slip))

\* `let hl_buy_price = hl_price * (1.0 + self.config.slippage_bps / 10000.0);`
BuyLimit(hl_price, slip) == FMul(hl_price, FAdd(FInt(1), slip))

\* The CEX order is on the side of the DEX swap.
HlIsBuySameSide(buy_dex) == buy_dex

\* is_buy of the CEX order: false in the buy_dex branch, true in the other.
HlIsBuy(buy_dex) == ~buy_dex

\* generate_action
generate_action(cfg, buy_dex, dex_price, hl_price) ==
    LET hype_amount_raw == FDiv(cfg.order_size_usd, dex_price)
        hype_amount == FDiv(FRound(FMul(hype_amount_raw, FInt(10000))), FInt(10000))
        usdc_raw == RawAmount(FMul(cfg.order_size_usd, FInt(1000000)), 0)
        \* (hype_amount * 1e18) as u128, kept as (hype_amount * 1e4) * 10^14
        hype_raw == RawAmount(FMul(hype_amount, FInt(10000)), 14)
        slip == FDiv(cfg.slippage_bps, FInt(10000)) IN
    IF buy_dex
    THEN [dex_swap |-> [token_in |-> cfg.usdc_address, token_out |-> cfg.hype_address,
                        fee |-> cfg.dex_fee, amount_in |-> usdc_raw,
                        amount_out_min |-> 0],
          hl_order |-> [coin |-> "HYPE/USDC", is_buy |-> HlIsBuy(buy_dex),
                        size |-> hype_amount, limit_px |-> SellLimit(hl_price, slip)],
          direction |-> "Buy DEX"]
    ELSE [dex_swap |-> [token_in |-> cfg.hype_address, token_out |-> cfg.usdc_address,
                        fee |-> cfg.dex_fee, amount_in |-> hype_raw,
                        amount_out_min |-> 0],
          hl_order |-> [coin |-> "HYPE/USDC", is_buy |-> HlIsBuy(buy_dex),
                        size |-> hype_amount, limit_px |-> BuyLimit(hl_price, slip)],
          direction |-> "Buy HL"]

\* HyperliquidExecutor::execute, the local part before the order is sent:
\* sz_decimals comes from the exchange metadata (1 when the coin is not listed).
SzDecimals == 0..MaxSzDecimals

\* `let order_value = rounded_size * rounded_price;`
HlOrderValue(order, sz_decimals) ==
    LET tick_size == F(1, 1000)
        size_multiplier == FPow10(sz_decimals)
        rounded_size == FDiv(FRound(FMul(order.size, size_multiplier)), size_multiplier)
        rounded_price == FMul(FRound(FDiv(order.limit_px, tick_size)), tick_size) IN
    FMul(rounded_size, rounded_price)

\* `if order_value < 10.0 { anyhow::bail!(...) }`: the HL leg returns Err
\* without sending the order.
BelowHlMinimum(order, sz_decimals) == FLt(HlOrderValue(order, sz_decimals), FInt(10))

\* A threshold test that also passes at equality.
ExceedsOrEquals(net_profit_bps, min_profit_bps) == FGe(net_profit_bps, min_profit_bps)

\* check_and_generate_actions, lines 214 and 219: net_profit_bps > min_profit_bps
Exceeds(net_profit_bps, min_profit_bps) == FGt(net_profit_bps, min_profit_bps)

\* A choice that takes the more profitable of two qualifying directions.
ChooseBestDirection(cfg, net_profit_1_bps, net_profit_2_bps) ==
    LET q1 == Exceeds(net_profit_1_bps, cfg.min_profit_bps)
        q2 == Exceeds(net_profit_2_bps, cfg.min_profit_bps) IN
    IF q1 /\ q2 THEN (IF FGt(net_profit_2_bps, net_profit_1_bps) THEN 2 ELSE 1)
    ELSE IF q1 THEN 1 ELSE IF q2 THEN 2 ELSE 0

\* check_and_generate_actions, lines 214-225: direction 1 is tested first.
ChooseDirection(cfg, net_profit_1_bps, net_profit_2_bps) ==
    IF Exceeds(net_profit_1_bps, cfg.min_profit_bps) THEN 1
    ELSE IF Exceeds(net_profit_2_bps, cfg.min_profit_bps) THEN 2
    ELSE 0

\* check_and_generate_actions on the two snapshot slots.
check_and_generate_actions(cfg, bbo_slot, dex_slot) ==
    IF ~(bbo_slot.some /\ dex_slot.some) THEN <<>>
    ELSE LET dex == calculate_dex_bid_ask(dex_slot.v) IN
    IF ~dex.some THEN <<>>
    ELSE LET hl == get_hyperliquid_prices(cfg, bbo_slot.v) IN
    IF ~hl.some THEN <<>>
    ELSE LET net_profit_1_bps == calculate_net_profit_bps(cfg, dex.v.ask, hl.v.bid)
             net_profit_2_bps == calculate_net_profit_bps(cfg, hl.v.ask, dex.v.bid)
             dir == ChooseDirection(cfg, net_profit_1_bps, net_profit_2_bps) IN
         IF dir = 1 THEN <<generate_action(cfg, TRUE, dex.v.ask, hl.v.bid)>>
         ELSE IF dir = 2 THEN <<generate_action(cfg, FALSE, dex.v.bid, hl.v.ask)>>
         ELSE <<>>

\* ------------------------------------------------------- strategy: inputs
Chars(a, b, c, d, e) == <<a, b, c, d, e>>
Level(px) == Some([px |-> px])

\* StrategyConfig values: order_size_usd, hl_maker_fee_bps, dex_gas_fee_usd,
\* min_profit_bps, slippage_bps.
MkConfig(order, maker, gas, min, slip) ==
    [order_size_usd |-> order, hl_maker_fee_bps |-> maker, dex_gas_fee_usd |-> gas,
     min_profit_bps |-> min, slippage_bps |-> slip,
     usdc_address |-> "USDC", hype_address |-> "HYPE", dex_fee |-> 3000]

StrategyConfigs ==
    { MkConfig(FInt(20), FInt(0), FInt(0), FInt(10), FInt(50)),
      MkConfig(FInt(20), FInt(100), F(1, 2), FInt(10), FInt(50)),
      MkConfig(FInt(20), FInt(0), FInt(0), FInt(50), FInt(0)),
      MkConfig(FInt(5), FInt(-100), F(1, 10), FInt(-100), FInt(100)) }

\* UniV3PoolState values.
MkPool(hi, lo_q96, fee, da, db) ==
    [sqrt_price |-> [hi |-> hi, lo_q96 |-> lo_q96], fee |-> fee,
     token_a_decimals |-> da, token_b_decimals |-> db]

PoolStates ==
    { MkPool(0, FInt(1), 0, 7, 6),
      MkPool(0, FInt(1), 10000, 7, 6),
      MkPool(0, FInt(2), 3000, 7, 6),
      MkPool(0, FInt(0), 3000, 7, 6),
      MkPool(1, FInt(2), 3000, 7, 6),
      MkPool(0, FInt(2), 0, 6, 6),
      MkPool(1, FInt(2), 0, 6, 6) }

\* HyperliquidBbo values.
MkBbo(levels, time) == [coin |-> "HYPE/USDC", levels |-> levels, time |-> time]

Bbos ==
    { MkBbo(<<Level(Chars("1", "0", ".", "0", "5")), Level(Chars("1", "0", ".", "1", "0"))>>, 1),
      MkBbo(<<Level(Chars("4", "0", ".", "2", "0")), Level(Chars("4", "0", ".", "2", "5"))>>, 2),
      MkBbo(<<Level(<<"1", "1">>), Level(<<"8">>)>>, 3),
      MkBbo(<<Level(<<"9", ".", "0">>), Level(<<"9", ".", "0", "5">>)>>, 4),
      MkBbo(<<Level(Chars("1", "0", ".", "0", "5"))>>, 5),
      MkBbo(<<None, Level(Chars("1", "0", ".", "1", "0"))>>, 6),
      MkBbo(<<Level(<<"1", "x">>), Level(Chars("1", "0", ".", "1", "0"))>>, 7),
      MkBbo(<<Level(<<"N", "a", "N">>), Level(Chars("1", "0", ".", "1", "0"))>>, 8) }

\* Event
PoolUpdate(state) == [kind |-> "PoolUpdate", payload |-> state]
HyperliquidBboEvent(bbo) == [kind |-> "HyperliquidBbo", payload |-> bbo]

\* ------------------------------------------------------ strategy: operations
\* HypeUsdcCrossArbitrage::from_config / new: both snapshot slots empty.
InitStrat ==
    /\ hyperliquid_bbo = None
    /\ hyperswap_state = None
    /\ seenVenues = {}
    /\ lastEvent = None
    /\ returned = <<>>
    /\ latest = [dex |-> None, cex |-> None, dexSeen |-> 0, cexSeen |-> 0]
    /\ pair = [i \in 1..2 |-> [hyperliquid_bbo |-> None, hyperswap_state |-> None,
                               returned |-> <<>>, dexSeen |-> 0, cexSeen |-> 0]]
    /\ joint = None

\* Events of one venue are counted up to MaxSeen.
Capped(n) == IF n > MaxSeen THEN MaxSeen ELSE n

\* A slot keeps its first snapshot instead of taking the new one.
StoreSnapshotOnce(slot, payload) == IF slot.some THEN slot ELSE Some(payload)

\* `self.hyperswap_state = Some(state)` / `self.hyperliquid_bbo = Some(bbo)`:
\* the new content of a snapshot slot that held `slot`.
StoreSnapshot(slot, payload) == Some(payload)

\* process_event(Event::PoolUpdate(state))
ProcessPoolUpdate(state) ==
    /\ hyperswap_state' = StoreSnapshot(hyperswap_state, state)
    /\ UNCHANGED <<hyperliquid_bbo, config>>
    /\ returned' = check_and_generate_actions(config, hyperliquid_bbo', hyperswap_state')
    /\ lastEvent' = Some(PoolUpdate(state))
    /\ seenVenues' = seenVenues \cup {"dex"}
    /\ latest' = [latest EXCEPT !.dex = Some(state), !.dexSeen = Capped(@ + 1)]
    /\ UNCHANGED <<max_concurrent, semaphore, govVars, execVars, engVars, pair, joint>>

\* process_event(Event::HyperliquidBbo(bbo))
ProcessHyperliquidBbo(bbo) ==
    /\ hyperliquid_bbo' = StoreSnapshot(hyperliquid_bbo, bbo)
    /\ UNCHANGED <<hyperswap_state, config>>
    /\ returned' = check_and_generate_actions(config, hyperliquid_bbo', hyperswap_state')
    /\ lastEvent' = Some(HyperliquidBboEvent(bbo))
    /\ seenVenues' = seenVenues \cup {"cex"}
    /\ latest' = [latest EXCEPT !.cex = Some(bbo), !.cexSeen = Capped(@ + 1)]
    /\ UNCHANGED <<max_concurrent, semaphore, govVars, execVars, engVars, pair, joint>>

NextStrat ==
    \/ \E state \in PoolStates : ProcessPoolUpdate(state)
    \/ \E bbo \in Bbos : ProcessHyperliquidBbo(bbo)

\* ------------------------------------------ strategy: two strategies compared
\* The two slots of strategy s after `match event { ... }` of process_event.
SlotsAfter(s, event) ==
    [hyperswap_state |-> IF event.kind = "PoolUpdate"
                         THEN StoreSnapshot(s.hyperswap_state, event.payload)
                         ELSE s.hyperswap_state,
     hyperliquid_bbo |-> IF event.kind = "HyperliquidBbo"
                         THEN StoreSnapshot(s.hyperliquid_bbo, event.payload)
                         ELSE s.hyperliquid_bbo]

\* The events per venue strategy s has processed, event included.
SeenAfter(s, event) ==
    [dexSeen |-> IF event.kind = "PoolUpdate" THEN Capped(s.dexSeen + 1) ELSE s.dexSeen,
     cexSeen |-> IF event.kind = "HyperliquidBbo" THEN Capped(s.cexSeen + 1) ELSE s.cexSeen]

\* A strategy that stays silent until it has seen MaxSeen DEX snapshots.
process_event_after_warm_up(cfg, s, event) ==
    LET slots == SlotsAfter(s, event)
        seen == SeenAfter(s, event) IN
    [hyperliquid_bbo |-> slots.hyperliquid_bbo, hyperswap_state |-> slots.hyperswap_state,
     returned |-> IF seen.dexSeen < MaxSeen THEN <<>>
                  ELSE check_and_generate_actions(cfg, slots.hyperliquid_bbo,
                                                  slots.hyperswap_state),
     dexSeen |-> seen.dexSeen, cexSeen |-> seen.cexSeen]

\* process_event as a function of the strategy and the event: the strategy
\* after the call, with the Vec<Action> the call returned.
process_event(cfg, s, event) ==
    LET slots == SlotsAfter(s, event)
        seen == SeenAfter(s, event) IN
    [hyperliquid_bbo |-> slots.hyperliquid_bbo, hyperswap_state |-> slots.hyperswap_state,
     returned |-> check_and_generate_actions(cfg, slots.hyperliquid_bbo,
                                             slots.hyperswap_state),
     dexSeen |-> seen.dexSeen, cexSeen |-> seen.cexSeen]

\* The events fed to the two strategies.
PairEvents ==
    {PoolUpdate(state) : state \in {q \in PoolStates :
                                       q.sqrt_price.hi = 0 /\ q.token_a_decimals = 7
                                       /\ q.fee \in {0, 3000} /\ q.sqrt_price.lo_q96 # FInt(0)}}
    \cup {HyperliquidBboEvent(bbo) : bbo \in {b \in Bbos : b.time \in {1, 3, 5}}}

\* One of the two strategies processes an event, the other one does not.
PairProcessOne(i, event) ==
    /\ pair' = [pair EXCEPT ![i] = process_event(config, @, event)]
    /\ joint' = None
    /\ UNCHANGED <<config, hyperliquid_bbo, hyperswap_state, seenVenues, lastEvent,
                   returned, latest>>
    /\ UNCHANGED <<max_concurrent, semaphore, govVars, execVars, engVars>>

\* Both strategies process the same event.
PairProcessBoth(event) ==
    /\ pair' = [i \in 1..2 |-> process_event(config, pair[i], event)]
    /\ joint' = Some([event |-> event,
                      slotsEqual |-> /\ pair[1].hyperliquid_bbo = pair[2].hyperliquid_bbo
                                     /\ pair[1].hyperswap_state = pair[2].hyperswap_state,
                      historiesDiffer |-> \/ pair[1].dexSeen # pair[2].dexSeen
                                          \/ pair[1].cexSeen # pair[2].cexSeen])
    /\ UNCHANGED <<config, hyperliquid_bbo, hyperswap_state, seenVenues, lastEvent,
                   returned, latest>>
    /\ UNCHANGED <<max_concurrent, semaphore, govVars, execVars, engVars>>

NextPair ==
    \/ \E i \in 1..2, event \in PairEvents : PairProcessOne(i, event)
    \/ \E event \in PairEvents : PairProcessBoth(event)

\* ------------------------------------------------------------ engine: buses
\* The components that add_collector / add_strategy / add_executor can register,
\* numbered in the order of registration.
Collectors == {1, 2}
Strategies == {1, 2}
Executors == {1, 2}

\* The tasks of the JoinSet that run builds.
Logger == <<"logger", 1>>
Exec(x) == <<"executor", x>>
Strat(s) == <<"strategy", s>>
Col(k) == <<"collector", k>>
ExecutorTasks == {Exec(x) : x \in Executors}
StrategyTasks == {Strat(s) : s \in Strategies}
CollectorTasks == {Col(k) : k \in Collectors}
Tasks == {Logger} \cup ExecutorTasks \cup StrategyTasks \cup CollectorTasks
EventSubscribers == {Logger} \cup StrategyTasks
Subscribers == EventSubscribers \cup ExecutorTasks

\* A task is alive from set.spawn until its future returns or is aborted.
Alive(st) == st \in {"recv", "processing", "setup", "streaming"}

\* usize::next_power_of_two
RECURSIVE PowerOfTwoFrom(_, _)
PowerOfTwoFrom(p, n) == IF p >= n THEN p ELSE PowerOfTwoFrom(2 * p, n)
NextPowerOfTwo(n) == PowerOfTwoFrom(1, n)

\* tokio::sync::broadcast::channel(capacity): the number of slots of the ring
\* (the requested capacity rounded up to a power of two).
BufferLen(capacity) == NextPowerOfTwo(capacity)

\* A bus is the sequence of every item sent on it; only its last
\* BufferLen(capacity) items are still in the ring.  Index of the oldest of them:
Oldest(bus, capacity) ==
    IF Len(bus) > BufferLen(capacity) THEN Len(bus) - BufferLen(capacity) + 1 ELSE 1
Retained(bus, capacity) == SubSeq(bus, Oldest(bus, capacity), Len(bus))

\* A lagging receiver skips everything sent so far, retained or not.
LagRestartsAtNewest(bus, capacity) == Len(bus) + 1

\* Receiver::recv on lag: the position the receiver continues from.
LagRestart(bus, capacity) == Oldest(bus, capacity)

\* A received item stays the receiver's next item.
AfterOkStays(nxt) == nxt

\* Receiver::recv on Ok: the receiver moves past the item it was given.
AfterOk(nxt) == nxt + 1

\* Receiver::recv for a receiver whose next unread index is nxt: an item, the
\* lag signal, the closed signal, or nothing yet (the receiver keeps waiting).
recv(bus, capacity, nxt, closed) ==
    IF nxt < Oldest(bus, capacity)
        THEN [kind |-> "Lagged", missed |-> LagRestart(bus, capacity) - nxt,
              next |-> LagRestart(bus, capacity), item |-> None]
    ELSE IF nxt <= Len(bus)
        THEN [kind |-> "Ok", missed |-> 0, next |-> AfterOk(nxt), item |-> Some(bus[nxt])]
    ELSE IF closed
        THEN [kind |-> "Closed", missed |-> 0, next |-> nxt, item |-> None]
    ELSE [kind |-> "Empty", missed |-> 0, next |-> nxt, item |-> None]

\* Sender::send: the item enters the ring unless no receiver is left (then send
\* returns an error, which the engine logs, and the item is dropped).
send(bus, item, receivers) == IF receivers = 0 THEN bus ELSE Append(bus, item)

RECURSIVE SendEach(_, _, _)
SendEach(bus, items, receivers) ==
    IF items = <<>> THEN bus
    ELSE SendEach(send(bus, Head(items), receivers), Tail(items), receivers)

Reverse(seq) == [i \in 1..Len(seq) |-> seq[Len(seq) + 1 - i]]

\* The actions of one process_event call are sent last first.
SendAllReversed(bus, actions, receivers) == SendEach(bus, Reverse(actions), receivers)

\* `for action in strategy.process_event(event).await { action_sender.send(action) }`
SendAll(bus, actions, receivers) == SendEach(bus, actions, receivers)

\* Event / action values: which component made them and in which position.
Event(k, n) == [collector |-> k, seq |-> n]
Action(s, e, i) == [strategy |-> s, event |-> e, idx |-> i]
\* Strategy::process_event returning n actions for event e.
ReturnedActions(s, e, n) == [i \in 1..n |-> Action(s, e, i)]

RECURSIVE SelectSeqBy(_, _)
\* The items of a sequence that belong to a set, in order.
SelectSeqBy(seq, set) ==
    IF seq = <<>> THEN <<>>
    ELSE IF Head(seq) \in set THEN <<Head(seq)>> \o SelectSeqBy(Tail(seq), set)
    ELSE SelectSeqBy(Tail(seq), set)

\* ------------------------------------------------------------ engine: run
\* main: `Arc::new(ExecutionManager::new(1))`, one per enabled strategy.
PerStrategyCapacity == 1

\* Engine::new: the capacity of both channels unless with_*_capacity is called.
DefaultCapacity == 512

\* Engine::new followed by with_*_capacity and add_* calls; run not yet called.
InitEngine(eventCaps, actionCaps, components) ==
    /\ event_channel_capacity \in eventCaps
    /\ action_channel_capacity \in actionCaps
    /\ runPc = "start"
    /\ task = [t \in Tasks |-> IF t \in components \cup {Logger} THEN "registered" ELSE "absent"]
    /\ event_bus = <<>>
    /\ action_bus = <<>>
    /\ cursor = [t \in Subscribers |-> 1]
    /\ colSent = [k \in Collectors |-> 0]
    /\ stratEvent = [s \in Strategies |-> None]
    /\ processed = [s \in Strategies |-> <<>>]
    /\ returnedLog = [s \in Strategies |-> <<>>]
    /\ syncCalls = [s \in Strategies |-> 0]
    /\ received = [x \in Executors |-> <<>>]
    /\ inFlight = [x \in Executors |-> {}]
    /\ sawClosed = {}
    /\ govSem = [x \in Executors |-> ExecutionManagerNew(PerStrategyCapacity)]
    /\ hpc = [x \in Executors |-> <<>>]

\* Receivers / senders alive on each bus.
EventReceivers == Cardinality({t \in EventSubscribers : Alive(task[t])})
ActionReceivers == Cardinality({t \in ExecutorTasks : Alive(task[t])})
\* run holds event_sender and _action_sender until it returns; every collector task
\* holds a clone of the former, every strategy task a clone of the latter.
EventBusClosed ==
    /\ runPc \in {"returned", "failed"}
    /\ \A k \in Collectors : ~Alive(task[Col(k)])
ActionBusClosed ==
    /\ runPc \in {"returned", "failed"}
    /\ \A s \in Strategies : ~Alive(task[Strat(s)])

\* run, up to the strategies loop: the two channels are made, the event logger
\* and every executor subscribe and are spawned (no await in between).
RunSpawnExecutors ==
    /\ runPc = "start"
    /\ runPc' = "strategies"
    /\ task' = [t \in Tasks |->
                  IF t \in {Logger} \cup ExecutorTasks /\ task[t] = "registered"
                      THEN "recv" ELSE task[t]]
    /\ cursor' = [t \in Subscribers |->
                  IF t = Logger THEN Len(event_bus) + 1
                  ELSE IF t \in ExecutorTasks THEN Len(action_bus) + 1 ELSE cursor[t]]
    /\ UNCHANGED <<event_channel_capacity, action_channel_capacity, event_bus, action_bus,
                   colSent, stratEvent, processed, returnedLog, syncCalls, received,
                   inFlight, sawClosed>>
    /\ UNCHANGED <<max_concurrent, semaphore, govVars, execVars, stratVars, mainVars>>

\* The tasks a failed `strategy.sync_state().await?` leaves alive: run returns the
\* error, its JoinSet is dropped and every task spawned so far is aborted.
AfterSyncFailure(tasks) == [t \in Tasks |-> IF Alive(tasks[t]) THEN "aborted" ELSE tasks[t]]

\* One turn of the strategies loop of run: subscribe, clone the action sender,
\* await sync_state, spawn the strategy's task.
RunSyncStrategy(s, ok) ==
    /\ runPc = "strategies"
    /\ task[Strat(s)] = "registered"
    /\ \A p \in Strategies : p < s => task[Strat(p)] # "registered"
    /\ syncCalls' = [syncCalls EXCEPT ![s] = @ + 1]
    /\ IF ok
         THEN /\ task' = [task EXCEPT ![Strat(s)] = "recv"]
              /\ cursor' = [cursor EXCEPT ![Strat(s)] = Len(event_bus) + 1]
              /\ UNCHANGED runPc
         ELSE /\ task' = [AfterSyncFailure(task) EXCEPT ![Strat(s)] = "sync_failed"]
              /\ runPc' = "failed"
              /\ UNCHANGED cursor
    /\ UNCHANGED <<event_channel_capacity, action_channel_capacity, event_bus, action_bus,
                   colSent, stratEvent, processed, returnedLog, received, inFlight, sawClosed>>
    /\ UNCHANGED <<max_concurrent, semaphore, govVars, execVars, stratVars, mainVars>>

\* The collectors loop does not wait for the strategies loop.
StrategiesLoopSkipped(tasks) == TRUE

\* run reaches the collectors loop when the strategies loop has handled every
\* registered strategy.
StrategiesLoopDone(tasks) == \A s \in Strategies : tasks[Strat(s)] # "registered"

\* The collectors loop of run and `Ok(set)`: every collector task is spawned
\* with a clone of event_sender, then run's own senders are dropped.
RunSpawnCollectors ==
    /\ runPc = "strategies"
    /\ StrategiesLoopDone(task)
    /\ runPc' = "returned"
    /\ task' = [t \in Tasks |->
                  IF t \in CollectorTasks /\ task[t] = "registered" THEN "setup" ELSE task[t]]
    /\ UNCHANGED <<event_channel_capacity, action_channel_capacity, event_bus, action_bus,
                   cursor, colSent, stratEvent, processed, returnedLog, syncCalls, received,
                   inFlight, sawClosed>>
    /\ UNCHANGED <<max_concurrent, semaphore, govVars, execVars, stratVars, mainVars>>

\* ------------------------------------------------------------ engine: tasks
\* A failed stream setup takes every task of the engine down.
EndedBySetupFailureAll(k) == Tasks

\* `Err(e) => error!("failed to get event stream ...")`: the tasks that end when
\* collector k's get_event_stream fails.
EndedBySetupFailure(k) == {Col(k)}

\* Collector task: `collector.get_event_stream().await` returns.
CollectorSetup(k, ok) ==
    /\ task[Col(k)] = "setup"
    /\ task' = IF ok THEN [task EXCEPT ![Col(k)] = "streaming"]
               ELSE [t \in Tasks |->
                       IF t = Col(k) THEN "setup_failed"
                       ELSE IF t \in EndedBySetupFailure(k) THEN "ended" ELSE task[t]]
    /\ UNCHANGED <<event_channel_capacity, action_channel_capacity, runPc, event_bus,
                   action_bus, cursor, colSent, stratEvent, processed, returnedLog,
                   syncCalls, received, inFlight, sawClosed>>
    /\ UNCHANGED <<max_concurrent, semaphore, govVars, execVars, stratVars, mainVars>>

\* A send waits until every subscriber has room (a bounded queue with
\* backpressure instead of a lossy ring).
SendMayProceedWhenRoom(bus, capacity, cursors) ==
    \A n \in cursors : Len(bus) + 1 - n < BufferLen(capacity)

\* Sender::send is not async: it never waits, whatever the positions of the
\* subscribers (cursors) are.
SendMayProceed(bus, capacity, cursors) == TRUE

\* Collector task: the stream yields an event, which is sent on the event bus.
CollectorSend(k) ==
    /\ task[Col(k)] = "streaming"
    /\ Len(event_bus) < MaxSent
    /\ SendMayProceed(event_bus, event_channel_capacity,
                      {cursor[t] : t \in {u \in EventSubscribers : Alive(task[u])}})
    /\ event_bus' = send(event_bus, Event(k, colSent[k] + 1), EventReceivers)
    /\ colSent' = [colSent EXCEPT ![k] = @ + 1]
    /\ UNCHANGED <<event_channel_capacity, action_channel_capacity, runPc, task,
                   action_bus, cursor, stratEvent, processed, returnedLog,
                   syncCalls, received, inFlight, sawClosed>>
    /\ UNCHANGED <<max_concurrent, semaphore, govVars, execVars, stratVars, mainVars>>

\* Collector task: the stream yields None; the task returns and drops its sender.
CollectorStreamEnds(k) ==
    /\ task[Col(k)] = "streaming"
    /\ task' = [task EXCEPT ![Col(k)] = "stream_ended"]
    /\ UNCHANGED <<event_channel_capacity, action_channel_capacity, runPc, event_bus,
                   action_bus, cursor, colSent, stratEvent, processed, returnedLog,
                   syncCalls, received, inFlight, sawClosed>>
    /\ UNCHANGED <<max_concurrent, semaphore, govVars, execVars, stratVars, mainVars>>

\* Event logger task: `Ok(_) => {}`, `Err(_) => break`.
LoggerRecv ==
    LET r == recv(event_bus, event_channel_capacity, cursor[Logger], EventBusClosed) IN
    /\ task[Logger] = "recv"
    /\ r.kind # "Empty"
    /\ cursor' = [cursor EXCEPT ![Logger] = r.next]
    /\ sawClosed' = IF r.kind = "Closed" THEN sawClosed \cup {Logger} ELSE sawClosed
    /\ task' = [task EXCEPT ![Logger] = IF r.kind = "Ok" THEN "recv" ELSE "ended"]
    /\ UNCHANGED <<event_channel_capacity, action_channel_capacity, runPc, event_bus,
                   action_bus, colSent, stratEvent, processed, returnedLog,
                   syncCalls, received, inFlight>>
    /\ UNCHANGED <<max_concurrent, semaphore, govVars, execVars, stratVars, mainVars>>

\* Strategy / executor task: the state of the task after `Err(e) => error!(...)`
\* in its receive loop (there is no break: the loop calls recv again).
AfterRecvError(kind) == "recv"

\* Strategy task: `event_receiver.recv().await` returns.
StrategyRecv(s) ==
    LET r == recv(event_bus, event_channel_capacity, cursor[Strat(s)], EventBusClosed) IN
    /\ task[Strat(s)] = "recv"
    /\ r.kind # "Empty"
    /\ cursor' = [cursor EXCEPT ![Strat(s)] = r.next]
    /\ sawClosed' = IF r.kind = "Closed" THEN sawClosed \cup {Strat(s)} ELSE sawClosed
    /\ IF r.kind = "Ok"
         THEN /\ stratEvent' = [stratEvent EXCEPT ![s] = r.item]
              /\ task' = [task EXCEPT ![Strat(s)] = "processing"]
         ELSE /\ task' = [task EXCEPT ![Strat(s)] = AfterRecvError(r.kind)]
              /\ UNCHANGED stratEvent
    /\ UNCHANGED <<event_channel_capacity, action_channel_capacity, runPc, event_bus,
                   action_bus, colSent, processed, returnedLog, syncCalls, received,
                   inFlight>>
    /\ UNCHANGED <<max_concurrent, semaphore, govVars, execVars, stratVars, mainVars>>

\* Strategy task: `strategy.process_event(event).await` returns n actions, which
\* are sent on the action bus one after the other.
StrategyProcessed(s, n) ==
    LET actions == ReturnedActions(s, stratEvent[s].v, n) IN
    /\ task[Strat(s)] = "processing"
    /\ Len(action_bus) + n <= MaxActions
    /\ action_bus' = SendAll(action_bus, actions, ActionReceivers)
    /\ returnedLog' = [returnedLog EXCEPT ![s] = @ \o actions]
    /\ processed' = [processed EXCEPT ![s] = Append(@, stratEvent[s].v)]
    /\ stratEvent' = [stratEvent EXCEPT ![s] = None]
    /\ task' = [task EXCEPT ![Strat(s)] = "recv"]
    /\ UNCHANGED <<event_channel_capacity, action_channel_capacity, runPc, event_bus,
                   cursor, colSent, syncCalls, received, inFlight, sawClosed>>
    /\ UNCHANGED <<max_concurrent, semaphore, govVars, execVars, stratVars, mainVars>>

\* The receive loop awaits execute: it is held while an action is in flight.
ReceiveLoopHeldInline(handlers) == handlers # {}

\* `tokio::spawn(async move { executor.execute(action).await ... })`: the loop
\* does not await the handler, so no action in flight holds it.
ReceiveLoopHeld(handlers) == FALSE

\* Executor task: `receiver.recv().await` returns; an action gets its own task.
ExecutorRecv(x) ==
    LET r == recv(action_bus, action_channel_capacity, cursor[Exec(x)], ActionBusClosed) IN
    /\ task[Exec(x)] = "recv"
    /\ ~ReceiveLoopHeld(inFlight[x])
    /\ r.kind # "Empty"
    /\ cursor' = [cursor EXCEPT ![Exec(x)] = r.next]
    /\ sawClosed' = IF r.kind = "Closed" THEN sawClosed \cup {Exec(x)} ELSE sawClosed
    /\ IF r.kind = "Ok"
         THEN /\ received' = [received EXCEPT ![x] = Append(@, r.item.v)]
              /\ inFlight' = [inFlight EXCEPT ![x] = @ \cup {r.item.v}]
              /\ UNCHANGED task
         ELSE /\ task' = [task EXCEPT ![Exec(x)] = AfterRecvError(r.kind)]
              /\ UNCHANGED <<received, inFlight>>
    /\ UNCHANGED <<event_channel_capacity, action_channel_capacity, runPc, event_bus,
                   action_bus, colSent, stratEvent, processed, returnedLog, syncCalls>>
    /\ UNCHANGED <<max_concurrent, semaphore, govVars, execVars, stratVars, mainVars>>

\* A spawned handler: `executor.execute(action).await` returns (Ok, or Err which is
\* logged) and the handler task ends.
HandlerReturns(x, a) ==
    /\ a \in inFlight[x]
    /\ inFlight' = [inFlight EXCEPT ![x] = @ \ {a}]
    /\ UNCHANGED <<event_channel_capacity, action_channel_capacity, runPc, task, event_bus,
                   action_bus, cursor, colSent, stratEvent, processed, returnedLog,
                   syncCalls, received, sawClosed>>
    /\ UNCHANGED <<max_concurrent, semaphore, govVars, execVars, stratVars, mainVars>>

NextEngine ==
    \/ RunSpawnExecutors
    \/ \E s \in Strategies, ok \in BOOLEAN : RunSyncStrategy(s, ok)
    \/ RunSpawnCollectors
    \/ \E k \in Collectors, ok \in BOOLEAN : CollectorSetup(k, ok)
    \/ \E k \in Collectors : CollectorSend(k)
    \/ \E k \in Collectors : CollectorStreamEnds(k)
    \/ LoggerRecv
    \/ \E s \in Strategies : StrategyRecv(s)
    \/ \E s \in Strategies, n \in 0..MaxReturned : StrategyProcessed(s, n)
    \/ \E x \in Executors : ExecutorRecv(x)
    \/ \E x \in Executors : \E a \in inFlight[x] : HandlerReturns(x, a)

\* ------------------------------------- engine as main wires it: handlers
\* main registers, for every enabled strategy, the strategy and one
\* ArbitrageExecutor with its own ExecutionManager; every executor subscribes to
\* the one action bus. A handler task runs `executor.execute(action)` for one
\* action received by executor x:
\*   "spawned" -> "dex" -> "hl" -> "sleep" -> "completed"
\* or ends as "skipped" (no permit), "dex_failed" or "hl_failed".
HandlerAt(x, a) == IF a \in DOMAIN hpc[x] THEN hpc[x][a] ELSE "spawned"

\* The positions in which an execute call holds its permit.
HoldsPermit(st) == st \in {"dex", "hl", "sleep"}

\* An execute error ends the receive loop of the executor.
ExecuteErrorEndsLoop(tasks, x) == [tasks EXCEPT ![Exec(x)] = "ended"]

\* `if let Err(e) = executor.execute(action).await { error!(...) }`: the error
\* is logged in the handler task and goes nowhere else.
AfterExecuteError(tasks, x) == tasks

\* The handler task of action a ends in `outcome`.
HandlerEnds(x, a, outcome, releases) ==
    /\ hpc' = [hpc EXCEPT ![x] = (a :> outcome) @@ @]
    /\ inFlight' = [inFlight EXCEPT ![x] = @ \ {a}]
    /\ govSem' = IF releases THEN [govSem EXCEPT ![x] = ExecutionPermitDrop(@)]
                 ELSE govSem

\* First poll of the handler: execute calls try_start on the executor's own
\* manager, then either returns Ok (skip) or invokes the DEX leg.
HandlerTryStart(x, a) ==
    /\ a \in inFlight[x]
    /\ a \notin DOMAIN hpc[x]
    /\ LET r == try_start(govSem[x]) IN
       IF OnTryStart(r.got) = "done"
       THEN HandlerEnds(x, a, "skipped", r.got)
       ELSE /\ hpc' = [hpc EXCEPT ![x] = (a :> "dex") @@ @]
            /\ govSem' = [govSem EXCEPT ![x] = r.sem]
            /\ UNCHANGED inFlight
    /\ UNCHANGED <<event_channel_capacity, action_channel_capacity, runPc, task, event_bus,
                   action_bus, cursor, colSent, stratEvent, processed, returnedLog,
                   syncCalls, received, sawClosed>>
    /\ UNCHANGED <<max_concurrent, semaphore, govVars, execVars, stratVars>>

\* dex_executor.execute returns r to the handler's execute call.
HandlerDexReturns(x, a, r) ==
    /\ a \in inFlight[x]
    /\ HandlerAt(x, a) = "dex"
    /\ IF OnDexResult(r) = "done"
       THEN /\ HandlerEnds(x, a, "dex_failed", TRUE)
            /\ task' = AfterExecuteError(task, x)
       ELSE /\ hpc' = [hpc EXCEPT ![x] = (a :> "hl") @@ @]
            /\ UNCHANGED <<inFlight, govSem, task>>
    /\ UNCHANGED <<event_channel_capacity, action_channel_capacity, runPc, event_bus,
                   action_bus, cursor, colSent, stratEvent, processed, returnedLog,
                   syncCalls, received, sawClosed>>
    /\ UNCHANGED <<max_concurrent, semaphore, govVars, execVars, stratVars>>

\* hl_executor.execute returns r to the handler's execute call.
HandlerHlReturns(x, a, r) ==
    /\ a \in inFlight[x]
    /\ HandlerAt(x, a) = "hl"
    /\ IF OnHlResult(r) = "done"
       THEN /\ HandlerEnds(x, a, "hl_failed", TRUE)
            /\ task' = AfterExecuteError(task, x)
       ELSE /\ hpc' = [hpc EXCEPT ![x] = (a :> "sleep") @@ @]
            /\ UNCHANGED <<inFlight, govSem, task>>
    /\ UNCHANGED <<event_channel_capacity, action_channel_capacity, runPc, event_bus,
                   action_bus, cursor, colSent, stratEvent, processed, returnedLog,
                   syncCalls, received, sawClosed>>
    /\ UNCHANGED <<max_concurrent, semaphore, govVars, execVars, stratVars>>

\* The cooldown sleep of the handler's execute call is over: execute returns
\* Ok(()) and the permit is dropped.
HandlerCooldownEnds(x, a) ==
    /\ a \in inFlight[x]
    /\ HandlerAt(x, a) = "sleep"
    /\ HandlerEnds(x, a, "completed", TRUE)
    /\ UNCHANGED <<event_channel_capacity, action_channel_capacity, runPc, task, event_bus,
                   action_bus, cursor, colSent, stratEvent, processed, returnedLog,
                   syncCalls, received, sawClosed>>
    /\ UNCHANGED <<max_concurrent, semaphore, govVars, execVars, stratVars>>

\* The engine with the handler tasks running ArbitrageExecutor::execute.
NextMain ==
    \/ RunSpawnExecutors
    \/ \E s \in Strategies, ok \in BOOLEAN : RunSyncStrategy(s, ok)
    \/ RunSpawnCollectors
    \/ \E k \in Collectors, ok \in BOOLEAN : CollectorSetup(k, ok)
    \/ \E k \in Collectors : CollectorSend(k)
    \/ \E k \in Collectors : CollectorStreamEnds(k)
    \/ LoggerRecv
    \/ \E s \in Strategies : StrategyRecv(s)
    \/ \E s \in Strategies, n \in 0..MaxReturned : StrategyProcessed(s, n)
    \/ \E x \in Executors : ExecutorRecv(x)
    \/ \E x \in Executors : \E a \in inFlight[x] : HandlerTryStart(x, a)
    \/ \E x \in Executors : \E a \in inFlight[x], r \in LegResults : HandlerDexReturns(x, a, r)
    \/ \E x \in Executors : \E a \in inFlight[x], r \in LegResults : HandlerHlReturns(x, a, r)
    \/ \E x \in Executors : \E a \in inFlight[x] : HandlerCooldownEnds(x, a)

\* ------------------------------------------------------------ specifications
InitManager ==
    /\ max_concurrent \in 1..MaxCapacity
    /\ semaphore = ExecutionManagerNew(max_concurrent)

\* The strategy configuration when the strategy is not under study.
DefaultConfig == MkConfig(FInt(20), FInt(2), F(1, 2), FInt(10), FInt(50))

\* The governor used directly by concurrent tasks.
InitSpecGov ==
    /\ InitManager /\ InitGov /\ InitExec /\ cooldown_secs = 0
    /\ InitStrat /\ config = DefaultConfig
    /\ InitEngine({DefaultCapacity}, {DefaultCapacity}, Tasks)

SpecGov == InitSpecGov /\ [][NextGov]_vars

\* Concurrent execute calls on one ArbitrageExecutor.
InitSpecExec ==
    /\ InitManager /\ InitGov /\ InitExec /\ cooldown_secs \in 0..MaxCooldownSecs
    /\ InitStrat /\ config = DefaultConfig
    /\ InitEngine({DefaultCapacity}, {DefaultCapacity}, Tasks)

SpecExec == InitSpecExec /\ [][NextExec]_vars

\* One strategy fed with any sequence of events of the two venues.
InitSpecStrat ==
    /\ max_concurrent = 1 /\ semaphore = ExecutionManagerNew(max_concurrent)
    /\ InitGov /\ InitExec /\ cooldown_secs = 0
    /\ InitStrat /\ config \in StrategyConfigs
    /\ InitEngine({DefaultCapacity}, {DefaultCapacity}, Tasks)

SpecStrat == InitSpecStrat /\ [][NextStrat]_vars

\* The quotes fed to the strategy configured as in the README example
\* (DefaultConfig): the three quotes left out give, with a maker fee of 2 bps
\* and the DEX mid of 40, net profits whose exact fractions exceed 32 bits.
ScenarioBbos == {bbo \in Bbos : bbo.time \notin {1, 4, 8}}

NextScenario ==
    \/ \E state \in PoolStates : ProcessPoolUpdate(state)
    \/ \E bbo \in ScenarioBbos : ProcessHyperliquidBbo(bbo)

\* One strategy with orderSizeUsd 20, makerFeeBps 2, gasFeeUsd 0.5,
\* minProfitBps 10, fed with any sequence of events of the two venues.
InitSpecScenario ==
    /\ max_concurrent = 1 /\ semaphore = ExecutionManagerNew(max_concurrent)
    /\ InitGov /\ InitExec /\ cooldown_secs = 0
    /\ InitStrat /\ config = DefaultConfig
    /\ InitEngine({DefaultCapacity}, {DefaultCapacity}, Tasks)

SpecScenario == InitSpecScenario /\ [][NextScenario]_vars

\* The configs the two strategies are built from.
PairConfigs == {cfg \in StrategyConfigs : cfg.slippage_bps = FInt(50)}

\* Two strategies built from the same config, fed with events separately or
\* together.
InitSpecPair ==
    /\ max_concurrent = 1 /\ semaphore = ExecutionManagerNew(max_concurrent)
    /\ InitGov /\ InitExec /\ cooldown_secs = 0
    /\ InitStrat /\ config \in PairConfigs
    /\ InitEngine({DefaultCapacity}, {DefaultCapacity}, Tasks)

SpecPair == InitSpecPair /\ [][NextPair]_vars

\* An engine with two collectors, one strategy and one executor.
InitSpecEngine ==
    /\ max_concurrent = 1 /\ semaphore = ExecutionManagerNew(max_concurrent)
    /\ InitGov /\ InitExec /\ cooldown_secs = 0
    /\ InitStrat /\ config = DefaultConfig
    /\ InitEngine(1..MaxBusCapacity, {MaxBusCapacity},
                  CollectorTasks \cup {Strat(1), Exec(1)})

SpecEngine == InitSpecEngine /\ [][NextEngine]_vars

\* An engine with one collector, two strategies and one executor.
InitSpecFanout ==
    /\ max_concurrent = 1 /\ semaphore = ExecutionManagerNew(max_concurrent)
    /\ InitGov /\ InitExec /\ cooldown_secs = 0
    /\ InitStrat /\ config = DefaultConfig
    /\ InitEngine({MaxBusCapacity}, {MaxBusCapacity},
                  {Col(1), Exec(1)} \cup StrategyTasks)

SpecFanout == InitSpecFanout /\ [][NextEngine]_vars

\* An engine with one collector, one strategy and two executors.
InitSpecDispatch ==
    /\ max_concurrent = 1 /\ semaphore = ExecutionManagerNew(max_concurrent)
    /\ InitGov /\ InitExec /\ cooldown_secs = 0
    /\ InitStrat /\ config = DefaultConfig
    /\ InitEngine({MaxBusCapacity}, 1..MaxBusCapacity,
                  {Col(1), Strat(1)} \cup ExecutorTasks)

SpecDispatch == InitSpecDispatch /\ [][NextEngine]_vars

\* The engine as main wires it for two enabled strategies: two strategies and
\* two executors, each executor with its own governor; the collectors of the
\* two strategies are represented by one collector. max_concurrent is the value
\* of the configuration file, here the smallest one Config::load accepts.
InitSpecMain ==
    /\ max_concurrent = 1
    /\ semaphore = ExecutionManagerNew(max_concurrent)
    /\ InitGov /\ InitExec /\ cooldown_secs = 0
    /\ InitStrat /\ config = DefaultConfig
    /\ InitEngine({MaxBusCapacity}, {MaxBusCapacity},
                  {Col(1)} \cup StrategyTasks \cup ExecutorTasks)

\* The runs of the engine in which every sync_state and every stream set-up
\* succeeds and no stream ends; the steps of the event logger, which touch
\* nothing but its own position on the event bus, are left out.
NextMainSetUp ==
    \/ RunSpawnExecutors
    \/ \E s \in Strategies : RunSyncStrategy(s, TRUE)
    \/ RunSpawnCollectors
    \/ \E k \in Collectors : CollectorSetup(k, TRUE)
    \/ \E k \in Collectors : CollectorSend(k)
    \/ \E s \in Strategies : StrategyRecv(s)
    \/ \E s \in Strategies, n \in 0..MaxReturned : StrategyProcessed(s, n)
    \/ \E x \in Executors : ExecutorRecv(x)
    \/ \E x \in Executors : \E a \in inFlight[x] : HandlerTryStart(x, a)
    \/ \E x \in Executors : \E a \in inFlight[x], r \in LegResults : HandlerDexReturns(x, a, r)
    \/ \E x \in Executors : \E a \in inFlight[x], r \in LegResults : HandlerHlReturns(x, a, r)
    \/ \E x \in Executors : \E a \in inFlight[x] : HandlerCooldownEnds(x, a)

SpecMain == InitSpecMain /\ [][NextMainSetUp]_vars

\* The engine as main wires it for one enabled strategy.
InitSpecHandling ==
    /\ max_concurrent = 1 /\ semaphore = ExecutionManagerNew(max_concurrent)
    /\ InitGov /\ InitExec /\ cooldown_secs = 0
    /\ InitStrat /\ config = DefaultConfig
    /\ InitEngine({MaxBusCapacity}, {MaxBusCapacity}, {Col(1), Strat(1), Exec(1)})

SpecHandling == InitSpecHandling /\ [][NextMain]_vars

\* ------------------------------------------------------------------ claims
\* C1: every execute call that acquired a permit has released it by the time it
\* has returned, on every exit path; once all started calls have returned, all
\* max_concurrent permits of the governor are available again.
PermitReleasedOnEveryExit ==
    /\ \A c \in Calls : pc[c] = "done" => ~permit[c]
    /\ (\A c \in Calls : pc[c] \in {"idle", "done"}) => semaphore = max_concurrent

\* All calls have returned: one in full success, one on a DEX-leg failure and one
\* on an HL-leg failure.
AllExitPathsTaken ==
    /\ \A c \in Calls : pc[c] = "done"
    /\ \E c \in Calls : IsErr(dexResult[c])
    /\ \E c \in Calls : IsErr(hlResult[c])
    /\ \E c \in Calls : hlResult[c] = Ok /\ result[c] = Ok

\* C2: under any interleaving of try_start calls and permit drops by concurrent
\* tasks, the permits held at the same time never exceed the capacity.
HeldNeverExceedsCapacity == HeldPermits <= max_concurrent

\* Every permit is held and a further try_start has just been refused.
CapacityReachedAndRefused ==
    /\ HeldPermits = max_concurrent
    /\ Len(govLog) > 0
    /\ govLog[Len(govLog)].op = "try" /\ ~govLog[Len(govLog)].got

\* C3: the HL leg is invoked only after the DEX leg of the same call returned
\* success; the DEX leg is always the first leg; after a DEX-leg failure the HL
\* leg is invoked zero times and execute returns an error.
DexLegBeforeHlLeg ==
    \A c \in Calls :
        /\ legLog[c] \in {<<>>, <<"dex">>, <<"dex", "hl">>}
        /\ Len(legLog[c]) = 2 => dexResult[c] = Ok
        /\ IsErr(dexResult[c]) =>
              /\ legLog[c] = <<"dex">>
              /\ hlResult[c] = Pending
              /\ pc[c] = "done"
              /\ IsErr(result[c])

\* One call returned on a DEX-leg failure and another one went on to the HL leg.
DexFailedAndHlInvoked ==
    /\ \E c \in Calls : IsErr(dexResult[c]) /\ pc[c] = "done"
    /\ \E c \in Calls : legLog[c] = <<"dex", "hl">>

\* C4: the outcome execute returns when the DEX leg succeeded and the HL leg
\* failed can be told apart from the outcome it returns on a DEX-leg failure, and
\* the permit is released.
OneSidedFailureIsTagged ==
    \A c, d \in Calls :
        ( /\ pc[c] = "done" /\ IsErr(dexResult[c])
          /\ pc[d] = "done" /\ dexResult[d] = Ok /\ IsErr(hlResult[d]) )
        => /\ result[c] # result[d]
           /\ ~permit[d]

\* C5: a call whose try_start found no permit returns Ok without invoking either
\* leg, and stays so in every later state: it is not executed when a permit
\* becomes free again.
NoPermitIsDroppedSkip ==
    \A c \in Calls :
        acquired[c] = "none" =>
            /\ pc[c] = "done"
            /\ result[c] = Ok
            /\ legLog[c] = <<>>
            /\ dexResult[c] = Pending /\ hlResult[c] = Pending
            /\ ~permit[c]

\* A call was skipped, every call has returned and all permits are free again.
SkippedAndPermitsFreeAgain ==
    /\ \E c \in Calls : acquired[c] = "none"
    /\ \A c \in Calls : pc[c] = "done"
    /\ semaphore = max_concurrent

\* Permits held just before the i-th operation of the governor history.
HeldBefore(i) ==
    Cardinality({j \in 1..(i - 1) : govLog[j].op = "try" /\ govLog[j].got})
    - Cardinality({j \in 1..(i - 1) : govLog[j].op = "drop"})

\* C6: a try_start returns a permit exactly when fewer than max_concurrent permits
\* are held: the first N succeed, one more is refused while all N are held, and
\* the next one after any drop succeeds.
TryStartSucceedsIffBelowCapacity ==
    \A i \in 1..Len(govLog) :
        govLog[i].op = "try" =>
            (govLog[i].got <=> HeldBefore(i) < max_concurrent)

\* N permits granted in a row, the next try_start refused, one permit dropped,
\* the following try_start granted.
FillRefuseDropGrant ==
    LET n == max_concurrent IN
    /\ Len(govLog) >= n + 3
    /\ \A i \in 1..n : govLog[i].op = "try" /\ govLog[i].got
    /\ govLog[n + 1].op = "try" /\ ~govLog[n + 1].got
    /\ govLog[n + 2].op = "drop"
    /\ govLog[n + 3].op = "try" /\ govLog[n + 3].got

\* C7 as claimed: every call that acquired a permit, also one that ends in a leg
\* failure, releases it only after cooldown_secs of cooldown have passed.
PermitHeldThroughCooldownOnEveryExit ==
    \A c \in Calls :
        (acquired[c] = "got" /\ pc[c] = "done") => slept[c] >= cooldown_secs

\* C7 as amended: a call that ends in full success holds its permit through the
\* whole cooldown; a call that ends in a leg failure releases it when execute
\* returns the error, with no cooldown.
PermitHeldThroughCooldownOnSuccess ==
    \A c \in Calls :
        /\ pc[c] = "sleep" => permit[c]
        /\ (acquired[c] = "got" /\ pc[c] = "done" /\ result[c] = Ok) =>
              slept[c] >= cooldown_secs
        /\ (pc[c] = "done" /\ IsErr(result[c])) =>
              ~permit[c] /\ elapsed[c] = -1 /\ slept[c] = 0

\* With a cooldown configured, one call returned after its cooldown and another
\* returned on a leg failure.
CooledDownAndFailed ==
    /\ cooldown_secs > 0
    /\ \E c \in Calls : acquired[c] = "got" /\ pc[c] = "done" /\ result[c] = Ok
                        /\ slept[c] >= cooldown_secs
    /\ \E c \in Calls : pc[c] = "done" /\ IsErr(result[c])

\* C8: on a governor of capacity 1, while a call is between its try_start and
\* the end of its cooldown no other call is in the DEX leg, and every call made
\* in that window returns as a skip.
CooldownBlocksReentry ==
    max_concurrent = 1 =>
        /\ \A c, d \in Calls : (c # d /\ InWindow(c)) => pc[d] # "dex"
        /\ \A d \in Calls :
              inWindow[d] # {} =>
                  /\ acquired[d] = "none"
                  /\ pc[d] = "done" /\ result[d] = Ok
                  /\ legLog[d] = <<>>

\* Capacity 1: a call was made while another one slept in its cooldown after
\* both legs succeeded.
CallMadeDuringCooldown ==
    /\ max_concurrent = 1
    /\ cooldown_secs > 0
    /\ \E c, d \in Calls :
          /\ c # d /\ hlResult[c] = Ok
          /\ "sleep" \in inWindow[d]
          /\ pc[d] = "done"
\* The prices and the two net profits the strategy computes from its slots
\* (defined when both slots are populated and the CEX quote is usable).
SlotsPopulated == hyperliquid_bbo.some /\ hyperswap_state.some
PricesAvailable ==
    /\ SlotsPopulated
    /\ get_hyperliquid_prices(config, hyperliquid_bbo.v).some
DexPrices == calculate_dex_bid_ask(hyperswap_state.v).v
HlPrices == get_hyperliquid_prices(config, hyperliquid_bbo.v).v
NetProfit1 == calculate_net_profit_bps(config, DexPrices.ask, HlPrices.bid)
NetProfit2 == calculate_net_profit_bps(config, HlPrices.ask, DexPrices.bid)

\* C9: process_event returns an action only if, after the event, both snapshot
\* slots are populated (both venues have delivered) and the net profit of the
\* emitted direction is strictly greater than min_profit_bps.
ActionOnlyWithBothSlotsAndProfit ==
    \A i \in 1..Len(returned) :
        /\ seenVenues = {"dex", "cex"}
        /\ PricesAvailable
        /\ returned[i].direction \in {"Buy DEX", "Buy HL"}
        /\ returned[i].direction = "Buy DEX" => FGt(NetProfit1, config.min_profit_bps)
        /\ returned[i].direction = "Buy HL" => FGt(NetProfit2, config.min_profit_bps)

\* An action was returned for an event that completed the pair of snapshots.
ActionEmitted ==
    /\ Len(returned) = 1
    /\ seenVenues = {"dex", "cex"}
    /\ lastEvent.some

\* C10: process_event returns at most one action: "Buy DEX" (CEX sell) when the
\* net profit of direction 1 exceeds min_profit_bps, otherwise "Buy HL" (CEX buy)
\* when that of direction 2 does, otherwise none; when both qualify, direction 1.
DirectionOneFirst ==
    /\ Len(returned) <= 1
    /\ (lastEvent.some /\ PricesAvailable) =>
          IF FGt(NetProfit1, config.min_profit_bps)
          THEN /\ Len(returned) = 1
               /\ returned[1].direction = "Buy DEX"
               /\ ~returned[1].hl_order.is_buy
          ELSE IF FGt(NetProfit2, config.min_profit_bps)
          THEN /\ Len(returned) = 1
               /\ returned[1].direction = "Buy HL"
               /\ returned[1].hl_order.is_buy
          ELSE returned = <<>>

\* Both directions qualify, direction 2 with the greater net profit, and the
\* action returned is direction 1.
BothQualifyDirectionOneTaken ==
    /\ lastEvent.some /\ PricesAvailable
    /\ FGt(NetProfit1, config.min_profit_bps)
    /\ FGt(NetProfit2, config.min_profit_bps)
    /\ FGt(NetProfit2, NetProfit1)
    /\ Len(returned) = 1 /\ returned[1].direction = "Buy DEX"

\* C11: process_event replaces the snapshot slot of the event's venue with the
\* event's payload and leaves the other venue's slot and the config unchanged: a
\* PoolUpdate never changes the CEX slot, a CEX quote never changes the DEX
\* slot, and after any sequence of events, in any interleaving of the two
\* venues, each slot holds the payload its venue delivered most recently.
EventReplacesOnlyItsVenueSlot ==
    /\ [](hyperswap_state = latest.dex /\ hyperliquid_bbo = latest.cex)
    /\ [][/\ config' = config
          /\ lastEvent'.v.kind = "PoolUpdate" =>
                /\ hyperswap_state' = Some(lastEvent'.v.payload)
                /\ hyperliquid_bbo' = hyperliquid_bbo
          /\ lastEvent'.v.kind = "HyperliquidBbo" =>
                /\ hyperliquid_bbo' = Some(lastEvent'.v.payload)
                /\ hyperswap_state' = hyperswap_state]_vars

\* The venues' events have interleaved: a second pool state has replaced the
\* first in the DEX slot while the CEX slot kept the second quote it was given.
SlotOverwrittenOtherKept ==
    /\ lastEvent.some /\ lastEvent.v.kind = "PoolUpdate"
    /\ latest.dexSeen = 2 /\ latest.cexSeen = 2
    /\ hyperliquid_bbo.some /\ hyperliquid_bbo = latest.cex
    /\ hyperswap_state = Some(lastEvent.v.payload)

\* A subscriber task that is waiting in recv with an item it has not read yet.
HasUnread(t, bus) == task[t] = "recv" /\ cursor[t] <= Len(bus)

\* C12: if a collector's get_event_stream fails, only that collector's task
\* ends: every strategy task and every executor task stays alive, no other
\* collector is ended by it, a collector that is streaming can still send, and
\* a strategy can still receive the events that are waiting for it.
SetupFailureEndsOnlyThatCollector ==
    \A k \in Collectors : task[Col(k)] = "setup_failed" =>
        /\ \A t \in StrategyTasks \cup ExecutorTasks : task[t] # "absent" => Alive(task[t])
        /\ \A j \in Collectors \ {k} :
              /\ task[Col(j)] \in {"setup", "streaming", "stream_ended", "setup_failed"}
              /\ (task[Col(j)] = "streaming" /\ Len(event_bus) < MaxSent)
                    => ENABLED CollectorSend(j)
        /\ \A s \in Strategies : HasUnread(Strat(s), event_bus) => ENABLED StrategyRecv(s)

\* Collector 1 failed to set up its stream; collector 2 streams, the strategy
\* has processed one of its events and the executor is handling an action.
OtherCollectorStillDelivers ==
    /\ task[Col(1)] = "setup_failed" /\ task[Col(2)] = "streaming"
    /\ processed[1] # <<>> /\ processed[1][1].collector = 2
    /\ inFlight[1] # {}

\* C13: a failure of one strategy's sync_state is contained to that strategy:
\* run goes on, no other task is aborted, and the other strategies, the
\* collectors and the executors are (or can still be) started.
SyncFailureIsContained ==
    \A s \in Strategies : task[Strat(s)] = "sync_failed" =>
        /\ runPc # "failed"
        /\ \A t \in Tasks \ {Strat(s)} : task[t] # "aborted"

\* C14: an executor's receive loop never waits for execute: whatever actions
\* are in flight on this or any other executor, a loop that has an unread action
\* can receive it.
ReceiveLoopNeverWaitsForExecute ==
    \A x \in Executors : HasUnread(Exec(x), action_bus) => ENABLED ExecutorRecv(x)

\* Executor 1 received a second action while its first was still in flight, and
\* executor 2 is handling an action as well.
SecondActionReceivedDuringFirst ==
    /\ Cardinality(inFlight[1]) = 2
    /\ inFlight[2] # {}

\* C15: tasks stop on bus closure: a strategy or executor task whose recv has
\* returned Closed has terminated.
TasksStopOnBusClosure ==
    \A t \in sawClosed : ~Alive(task[t])

\* The bus a subscriber task reads, and the capacity that bus was asked for.
BusOf(t) == IF t \in ExecutorTasks THEN action_bus ELSE event_bus
CapacityOf(t) == IF t \in ExecutorTasks THEN action_channel_capacity ELSE event_channel_capacity
\* Index of the oldest of the last n items of a bus.
OldestOfLast(bus, n) == IF Len(bus) > n THEN Len(bus) - n + 1 ELSE 1
\* A recv of subscriber t returns in this step (its position changes).
RecvReturned(t) == cursor'[t] # cursor[t]

PositionIn(seq, item) == CHOOSE i \in 1..Len(seq) : seq[i] = item

StrategyLagged(s) == RecvReturned(Strat(s)) /\ stratEvent'[s] = stratEvent[s]

\* C18: a strategy that is slow or has stopped consuming never blocks a
\* collector's send (a streaming collector can always send), never delays
\* another strategy's receipt (a strategy with an unread event can always
\* receive), and never makes another subscriber lose events: a strategy loses
\* events only when it is itself further behind than the bus retains.
SlowStrategyHarmsOnlyItself ==
    /\ [](\A k \in Collectors : (task[Col(k)] = "streaming" /\ Len(event_bus) < MaxSent)
                                    => ENABLED CollectorSend(k))
    /\ [](\A s \in Strategies : HasUnread(Strat(s), event_bus) => ENABLED StrategyRecv(s))
    /\ [][\A s \in Strategies : StrategyLagged(s) =>
              Len(event_bus) - cursor[Strat(s)] >= NextPowerOfTwo(event_channel_capacity)]_vars

\* Strategy 1 has consumed nothing while two events were sent; strategy 2 has
\* processed both of them.
OtherStrategyReceivedEverything ==
    /\ Len(event_bus) = 2
    /\ cursor[Strat(1)] = 1 /\ task[Strat(1)] = "recv" /\ processed[1] = <<>>
    /\ processed[2] = event_bus

\* The actions of strategy s on the action bus, in bus order.
ActionsSentBy(s) ==
    SelectSeqBy(action_bus, {returnedLog[s][i] : i \in 1..Len(returnedLog[s])})

\* C19: for every registered strategy sync_state is never invoked twice, and it
\* has been invoked exactly once before the strategy's task exists and hence
\* before any process_event; whenever the strategy is between two events or has
\* just received one, every action its process_event calls returned so far is
\* on the action bus, in the returned order.
SyncOnceThenActionsInReturnedOrder ==
    \A s \in Strategies :
        /\ syncCalls[s] <= 1
        /\ (task[Strat(s)] \in {"recv", "processing"} \/ processed[s] # <<>>)
              => syncCalls[s] = 1
        /\ ActionsSentBy(s) = returnedLog[s]

\* Strategy 1 was synchronised once, has processed an event for which
\* process_event returned two actions, and has received its next event.
TwoActionsSentBeforeNextEvent ==
    /\ syncCalls[1] = 1 /\ Len(processed[1]) = 1
    /\ Len(returnedLog[1]) = 2 /\ ActionsSentBy(1) = returnedLog[1]
    /\ task[Strat(1)] = "processing"

\* The mid price of a DEX state: (sqrtPrice / 2^96)^2 * 10^(decimals A - decimals B),
\* with the sqrtPrice the conversion to u128 yields.
DexMid(state) ==
    FMul(FMul(state.sqrt_price.lo_q96, state.sqrt_price.lo_q96),
         FPow10(state.token_a_decimals - state.token_b_decimals))
DexBidAsk(state) == calculate_dex_bid_ask(state).v

\* C20 as stated: for every DEX state with feeTierPpm > 0 calculate_dex_bid_ask
\* returns bid < ask, and for every DEX state with feeTierPpm = 0 it returns
\* bid = ask = mid.
BidBelowAskForEveryDexState ==
    hyperswap_state.some =>
        LET state == hyperswap_state.v IN
        /\ state.fee > 0 => FLt(DexBidAsk(state).bid, DexBidAsk(state).ask)
        /\ state.fee = 0 => /\ DexBidAsk(state).bid = DexMid(state)
                             /\ DexBidAsk(state).ask = DexMid(state)

\* C20, amended: for every DEX state with feeTierPpm > 0 whose mid price is
\* positive calculate_dex_bid_ask returns bid < ask; for a DEX state whose mid
\* price is 0 (the low 128 bits of sqrtPrice are 0) it returns bid = ask = 0
\* whatever the fee; for every DEX state with feeTierPpm = 0 it returns
\* bid = ask = mid.
BidBelowAskForPositiveMid ==
    hyperswap_state.some =>
        LET state == hyperswap_state.v IN
        /\ (state.fee > 0 /\ FGt(DexMid(state), FInt(0)))
              => FLt(DexBidAsk(state).bid, DexBidAsk(state).ask)
        /\ DexMid(state) = FInt(0)
              => DexBidAsk(state).bid = FInt(0) /\ DexBidAsk(state).ask = FInt(0)
        /\ state.fee = 0 => /\ DexBidAsk(state).bid = DexMid(state)
                             /\ DexBidAsk(state).ask = DexMid(state)

\* The DEX slot holds a state with a positive fee and a positive mid price, for
\* which bid < mid < ask was computed.
PositiveFeeSpreadsBidAsk ==
    /\ hyperswap_state.some /\ hyperswap_state.v.fee > 0
    /\ FLt(DexBidAsk(hyperswap_state.v).bid, DexMid(hyperswap_state.v))
    /\ FLt(DexMid(hyperswap_state.v), DexBidAsk(hyperswap_state.v).ask)

\* The mid price a sqrtPrice field encodes. sqrtPrice = sqrt(P) * 2^96 and
\* sqrtPrice = hi * 2^128 + lo, so sqrt(P) = hi * 2^32 + lo_q96 and
\* P = hi^2 * 2^64 + 2 * hi * lo_q96 * 2^32 + lo_q96^2. The three coefficients
\* are kept apart (P is written in base 2^32): 2^32 is not computed.
EncodedPrice(sqrt_price) ==
    [c2 |-> FInt(sqrt_price.hi * sqrt_price.hi),
     c1 |-> FMul(FInt(2 * sqrt_price.hi), sqrt_price.lo_q96),
     c0 |-> FMul(sqrt_price.lo_q96, sqrt_price.lo_q96)]

\* Relative tolerance of the round trip.
RoundTripTolerance == F(1, 1000000)

\* x is within tolerance of the price p written in base 2^32. Every x and every
\* coefficient of the model is below 2^31, so a price with a non-zero c2 or c1
\* is at least 2^32, more than twice x, and x is not within tolerance of it.
WithinTolerance(x, p) ==
    /\ p.c2 = FInt(0)
    /\ p.c1 = FInt(0)
    /\ FGe(FMul(p.c0, RoundTripTolerance), FSub(x, p.c0))
    /\ FGe(FMul(p.c0, RoundTripTolerance), FSub(p.c0, x))

\* C21: for every DEX state with equal token decimals and fee 0, whatever mid
\* price P its sqrtPrice field encodes, calculate_dex_bid_ask returns P (as bid
\* and as ask) within tolerance.
RoundTripRecoversEncodedPrice ==
    (/\ hyperswap_state.some
     /\ hyperswap_state.v.fee = 0
     /\ hyperswap_state.v.token_a_decimals = hyperswap_state.v.token_b_decimals)
        => LET state == hyperswap_state.v
               P == EncodedPrice(state.sqrt_price) IN
           /\ WithinTolerance(DexBidAsk(state).bid, P)
           /\ WithinTolerance(DexBidAsk(state).ask, P)

\* The round trip does hold for a sqrtPrice below 2^128.
RoundTripRecoversPriceBelow128Bits ==
    (/\ hyperswap_state.some
     /\ hyperswap_state.v.fee = 0
     /\ hyperswap_state.v.token_a_decimals = hyperswap_state.v.token_b_decimals
     /\ hyperswap_state.v.sqrt_price.hi = 0)
        => WithinTolerance(DexBidAsk(hyperswap_state.v).bid,
                           EncodedPrice(hyperswap_state.v.sqrt_price))

\* Scenario B: orderSizeUsd 20, makerFeeBps 2, gasFeeUsd 0.5, minProfitBps 10, a
\* DEX mid of 40.00 at feeTierPpm 3000 and a CEX raw bid/ask of 40.20/40.25.
ScenarioB ==
    /\ config.order_size_usd = FInt(20) /\ config.hl_maker_fee_bps = FInt(2)
    /\ config.dex_gas_fee_usd = F(1, 2) /\ config.min_profit_bps = FInt(10)
    /\ hyperswap_state.some
    /\ DexMid(hyperswap_state.v) = FInt(40) /\ hyperswap_state.v.fee = 3000
    /\ hyperliquid_bbo.some
    /\ Len(hyperliquid_bbo.v.levels) >= 2
    /\ hyperliquid_bbo.v.levels[1].some /\ hyperliquid_bbo.v.levels[2].some
    /\ ParseF64(hyperliquid_bbo.v.levels[1].v.px) = Some(F(402, 10))
    /\ ParseF64(hyperliquid_bbo.v.levels[2].v.px) = Some(F(4025, 100))

\* x is v to within tol.
About(x, v, tol) == FGe(x, FSub(v, tol)) /\ FGe(FAdd(v, tol), x)

\* ((Y - X) / X - gasFeeUsd / orderSizeUsd) * 10000 for X the DEX ask and Y the
\* fee-adjusted CEX bid of the two slots, computed from the raw quote.
ScenarioNetProfit ==
    LET X == FMul(DexMid(hyperswap_state.v),
                  FAdd(FInt(1), F(hyperswap_state.v.fee, 2000000)))
        Y == FMul(ParseF64(hyperliquid_bbo.v.levels[1].v.px).v,
                  FSub(FInt(1), FDiv(config.hl_maker_fee_bps, FInt(10000)))) IN
    FMul(FSub(FDiv(FSub(Y, X), X),
              FDiv(config.dex_gas_fee_usd, config.order_size_usd)),
         FInt(10000))

\* C22 as stated: in scenario B the net profit of buying at the DEX ask and
\* selling at the fee-adjusted CEX bid is about -21.8 bps, the strategy computes
\* that value, and process_event emits no action.
ScenarioBNetIsMinus21Point8 ==
    ScenarioB => /\ About(ScenarioNetProfit, F(-218, 10), F(1, 10))
                 /\ NetProfit1 = ScenarioNetProfit
                 /\ returned = <<>>

\* C22, amended: in scenario B the net profit of buying at the DEX ask and
\* selling at the fee-adjusted CEX bid is about -217.1 bps (a gross profit of
\* about 32.9 bps less a gas share of 0.5 / 20 = 250 bps), the strategy computes
\* that value, and process_event emits no action.
ScenarioBNetIsMinus217 ==
    ScenarioB => /\ About(ScenarioNetProfit, F(-2171, 10), F(1, 10))
                 /\ NetProfit1 = ScenarioNetProfit
                 /\ returned = <<>>

\* Scenario B has been processed: both slots hold its snapshots, the last event
\* was one of the two, and nothing was emitted.
ScenarioBProcessed ==
    /\ ScenarioB /\ lastEvent.some /\ returned = <<>>
    /\ FLt(NetProfit1, FInt(0))

\* C25: for every emitted action under slippageBps >= 0 the DEX leg carries
\* minAmountOut = 0; a CEX sell carries limit = decision CEX price (the
\* fee-adjusted bid) * (1 - slippageBps / 10000), not above that price; a CEX
\* buy carries limit = decision CEX price (the fee-adjusted ask) *
\* (1 + slippageBps / 10000), not below it.
SlippageMovesCexLimitAgainstTaker ==
    (returned # <<>> /\ FGe(config.slippage_bps, FInt(0))) =>
        \A i \in DOMAIN returned :
            LET a == returned[i]
                s == FDiv(config.slippage_bps, FInt(10000)) IN
            /\ a.dex_swap.amount_out_min = 0
            /\ ~a.hl_order.is_buy =>
                  /\ a.hl_order.limit_px = FMul(HlPrices.bid, FSub(FInt(1), s))
                  /\ FGe(HlPrices.bid, a.hl_order.limit_px)
            /\ a.hl_order.is_buy =>
                  /\ a.hl_order.limit_px = FMul(HlPrices.ask, FAdd(FInt(1), s))
                  /\ FGe(a.hl_order.limit_px, HlPrices.ask)

\* A CEX sell was emitted under a positive slippage: its limit is below the
\* decision price.
SellLimitBelowDecisionPrice ==
    /\ returned # <<>> /\ FGt(config.slippage_bps, FInt(0))
    /\ ~returned[1].hl_order.is_buy
    /\ FLt(returned[1].hl_order.limit_px, HlPrices.bid)

\* A CEX buy was emitted under a positive slippage: its limit is above the
\* decision price.
BuyLimitAboveDecisionPrice ==
    /\ returned # <<>> /\ FGt(config.slippage_bps, FInt(0))
    /\ returned[1].hl_order.is_buy
    /\ FGt(returned[1].hl_order.limit_px, HlPrices.ask)

\* An amount rounded to 4 decimals.
Round4(x) == FDiv(FRound(FMul(x, FInt(10000))), FInt(10000))

\* C30: a "Buy DEX" action swaps the USD token in for the asset token out and
\* carries a CEX sell; a "Buy HL" action swaps the asset token in for the USD
\* token out and carries a CEX buy; in both the CEX size is orderSizeUsd / DEX
\* decision price (the DEX ask for "Buy DEX", the DEX bid for "Buy HL") rounded
\* to 4 decimals.
LegsAreOppositeSides ==
    \A i \in DOMAIN returned :
        LET a == returned[i] IN
        /\ a.direction \in {"Buy DEX", "Buy HL"}
        /\ a.direction = "Buy DEX" =>
              /\ a.dex_swap.token_in = config.usdc_address
              /\ a.dex_swap.token_out = config.hype_address
              /\ a.hl_order.is_buy = FALSE
              /\ a.hl_order.size = Round4(FDiv(config.order_size_usd, DexPrices.ask))
        /\ a.direction = "Buy HL" =>
              /\ a.dex_swap.token_in = config.hype_address
              /\ a.dex_swap.token_out = config.usdc_address
              /\ a.hl_order.is_buy = TRUE
              /\ a.hl_order.size = Round4(FDiv(config.order_size_usd, DexPrices.bid))

\* A "Buy HL" action with a finite positive size was emitted.
BuyHlActionEmitted ==
    /\ returned # <<>> /\ returned[1].direction = "Buy HL"
    /\ returned[1].hl_order.is_buy
    /\ IsFinite(returned[1].hl_order.size)
    /\ FGt(returned[1].hl_order.size, FInt(0))

\* A "Buy DEX" action with a finite positive size was emitted.
BuyDexActionEmitted ==
    /\ returned # <<>> /\ returned[1].direction = "Buy DEX"
    /\ ~returned[1].hl_order.is_buy
    /\ IsFinite(returned[1].hl_order.size)
    /\ FGt(returned[1].hl_order.size, FInt(0))

\* A CEX quote with fewer than two levels, a missing level at index 0 or 1, or
\* a price string that does not decode to a number.
UnusableQuote(bbo) ==
    \/ Len(bbo.levels) < 2
    \/ ~bbo.levels[1].some
    \/ ~bbo.levels[2].some
    \/ ~ParseF64(bbo.levels[1].v.px).some
    \/ ~ParseF64(bbo.levels[2].v.px).some

\* C26: while the latest CEX quote received is unusable, it is the content of
\* the CEX slot (it replaced the previous snapshot) and the last process_event,
\* whether it handled that quote or a later DEX update, emitted no action.
UnusableCexQuoteEmitsNothing ==
    (latest.cex.some /\ UnusableQuote(latest.cex.v)) =>
        /\ hyperliquid_bbo = latest.cex
        /\ returned = <<>>

\* An unusable quote came after an earlier CEX quote, and a DEX update was
\* processed after it.
DexUpdateAfterUnusableQuote ==
    /\ latest.cexSeen >= 2 /\ latest.cex.some /\ UnusableQuote(latest.cex.v)
    /\ hyperswap_state.some
    /\ lastEvent.some /\ lastEvent.v.kind = "PoolUpdate"
    /\ returned = <<>>

\* C29: under a config that Config::load accepts (order_size_usd > 0) every
\* emitted action carries a CEX order that passes the CEX leg's local
\* minimum-order-value check, whatever the size decimals of the coin; that
\* check runs in the HL leg, which execute calls after the DEX leg has
\* returned Ok, so a failing check leaves the DEX swap of the attempt unhedged.
EmittedOrderMeetsCexMinimum ==
    FGt(config.order_size_usd, FInt(0)) =>
        \A i \in DOMAIN returned : \A sz_decimals \in SzDecimals :
            ~BelowHlMinimum(returned[i].hl_order, sz_decimals)

\* Number of events sent by the collectors / of actions returned by the
\* strategies so far.
EventsSent == colSent[1] + colSent[2]
ActionsReturned == Len(returnedLog[1]) + Len(returnedLog[2])

\* C27: no strategy task exists while a registered executor is not yet
\* subscribed to the action bus, and no collector task exists while a
\* registered strategy is not yet subscribed to the event bus; so the buses are
\* empty while a subscriber is still missing, and every event sent and every
\* action returned entered its bus (no send failed for lack of a subscriber).
SubscribedBeforeAnySend ==
    /\ (\E s \in Strategies : task[Strat(s)] \notin {"registered", "absent"})
          => \A x \in Executors : task[Exec(x)] # "registered"
    /\ (\E k \in Collectors : task[Col(k)] \notin {"registered", "absent"})
          => \A s \in Strategies : task[Strat(s)] # "registered"
    /\ (\E x \in Executors : task[Exec(x)] = "registered") => action_bus = <<>>
    /\ (\E s \in Strategies : task[Strat(s)] = "registered") => event_bus = <<>>
    /\ Len(event_bus) = EventsSent
    /\ Len(action_bus) = ActionsReturned

\* The first event sent was processed by both strategies and the first action
\* sent was received by the executor.
FirstEventAndActionDelivered ==
    /\ \A s \in Strategies : processed[s] # <<>> /\ processed[s][1] = event_bus[1]
    /\ action_bus # <<>>
    /\ received[1] # <<>> /\ received[1][1] = action_bus[1]

\* The execute calls of executor x that hold a permit.
Holders(x) == {a \in DOMAIN hpc[x] : HoldsPermit(hpc[x][a])}

\* Two-leg executions in flight in the whole engine.
ExecutionsInFlight == Cardinality(Holders(1)) + Cardinality(Holders(2))

\* C23: in the engine as main wires it, the number of two-leg executions in
\* flight at the same time, counted across all executors, never exceeds the
\* configured max_concurrent.
InFlightWithinMaxConcurrent == ExecutionsInFlight <= max_concurrent

\* The executors that have invoked the DEX leg for action a.
DexLegRunBy(a) ==
    {x \in Executors :
        HandlerAt(x, a) \in {"dex", "hl", "sleep", "completed", "dex_failed", "hl_failed"}}

\* C28: each action sent on the action bus leads to at most one DEX-leg
\* execution in the whole engine, with two strategy/executor pairs registered
\* the way main registers them.
AtMostOneDexLegPerAction ==
    \A i \in 1..Len(action_bus) : Cardinality(DexLegRunBy(action_bus[i])) <= 1

\* The position of the handler of action a after the step.
HandlerAtNext(x, a) == IF a \in DOMAIN hpc'[x] THEN hpc'[x][a] ELSE "spawned"

\* The step in which execute returns an error for action a of executor x.
ExecuteFails(x, a) ==
    /\ HandlerAt(x, a) \in {"dex", "hl"}
    /\ HandlerAtNext(x, a) \in {"dex_failed", "hl_failed"}

\* C24: the step in which execute returns an error for one action ends that
\* action's handler, gives its permit back and changes nothing else: every
\* task, the receive loop included, both buses, every cursor and every other
\* handler stay as they were. The permit of an executor is either free or held
\* by one running handler, so while no handler holds it a handler that is
\* started next acquires it and invokes the DEX leg.
ExecuteErrorOnlyLogged ==
    /\ [][\A x \in Executors : \A a \in DOMAIN hpc'[x] :
             ExecuteFails(x, a) =>
                 /\ task' = task /\ runPc' = runPc
                 /\ event_bus' = event_bus /\ action_bus' = action_bus
                 /\ cursor' = cursor /\ received' = received
                 /\ sawClosed' = sawClosed
                 /\ inFlight' = [inFlight EXCEPT ![x] = @ \ {a}]
                 /\ govSem' = [govSem EXCEPT ![x] = @ + 1]
                 /\ \A y \in Executors : \A b \in DOMAIN hpc'[y] :
                        <<y, b>> # <<x, a>> => HandlerAtNext(y, b) = HandlerAt(y, b)]_vars
    /\ [](\A x \in Executors :
             /\ govSem[x] + Cardinality(Holders(x)) = PerStrategyCapacity
             /\ \A a \in inFlight[x] :
                    (HandlerAt(x, a) = "spawned" /\ Holders(x) = {})
                        => ENABLED (HandlerTryStart(x, a) /\ hpc'[x][a] = "dex"))

\* On executor 1 execute failed for one action, the receive loop is still
\* receiving, and an action received later acquired the permit and had its
\* DEX leg executed.
LaterActionExecutedAfterFailure ==
    /\ task[Exec(1)] = "recv"
    /\ \E a, b \in DOMAIN hpc[1] :
          /\ hpc[1][a] \in {"dex_failed", "hl_failed"}
          /\ hpc[1][b] \in {"hl", "sleep", "completed"}
          /\ PositionIn(received[1], a) < PositionIn(received[1], b)

====
